---------------------------- MODULE Spec2Model ----------------------------
(***************************************************************************)
(* A state-machine model of goat (Go allocation trace tools):              *)
(*   - the trace parser (package goat): index construction in NewParser,   *)
(*     the batch reader and the timestamp-ordered event stream;            *)
(*   - the toolbox simulator (package toolbox and its page, stack and      *)
(*     object allocators).                                                 *)
(*                                                                         *)
(* Representation notes.                                                   *)
(*   - TLC integers are 32 bits wide.  Virtual addresses are therefore     *)
(*     stored relative to the origin of the simulated address space: the   *)
(*     model value of an address a >= 0xc00000000000 is                    *)
(*     a - 0xc00000000000 + go114ArenaSize, and the model value 0 is the   *)
(*     address 0 (Go's "no address").  The origin is a multiple of every   *)
(*     alignment the program uses, so AlignUp/AlignDown/Diff commute with  *)
(*     the shift.                                                          *)
(*   - ^uint64(0) is represented by MaxUint64, the top of the model's      *)
(*     integer range; every timestamp of a modelled trace is below it.     *)
(*   - Linked lists of spans are sequences of span ids, head first.        *)
(*   - A Go panic is recorded in a "panic" field; a panicked program takes *)
(*     no further step.                                                    *)
(***************************************************************************)
EXTENDS Integers, Sequences, FiniteSets, TLC

(***************************************************************************)
(* Generic helpers.                                                        *)
(***************************************************************************)

\* Map lookup with Go's zero-value default.
Get(f, k, default) == IF k \in DOMAIN f THEN f[k] ELSE default

\* Map update (m[k] = v).
Put(f, k, v) == [x \in (DOMAIN f) \cup {k} |-> IF x = k THEN v ELSE f[x]]

\* delete(m, k).
Del(f, k) == [x \in (DOMAIN f) \ {k} |-> f[x]]

EmptyMap == [x \in {} |-> 0]

Min(a, b) == IF a < b THEN a ELSE b

Max(a, b) == IF a > b THEN a ELSE b

RECURSIVE Pow2(_)
Pow2(n) == IF n = 0 THEN 1 ELSE 2 * Pow2(n - 1)

\* math/bits.Len64: the number of bits needed to represent x.
RECURSIVE Len64(_)
Len64(x) == IF x = 0 THEN 0 ELSE 1 + Len64(x \div 2)

RECURSIVE SeqSum(_)
SeqSum(s) == IF s = <<>> THEN 0 ELSE Head(s) + SeqSum(Tail(s))

RECURSIVE SetSum(_, _)
SetSum(S, f) ==
  IF S = {} THEN 0
  ELSE LET x == CHOOSE y \in S : TRUE IN f[x] + SetSum(S \ {x}, f)

SeqToSet(s) == {s[i] : i \in 1..Len(s)}

RemoveFromSeq(s, x) == SelectSeq(s, LAMBDA y : y # x)

(***************************************************************************)
(* Package goat: trace format constants (parser.go).                       *)
(***************************************************************************)

batchSize == 32768

headerSize == 4

supportedVersion == 271

atEvBad == 0
atEvSpanAcquire == 1
atEvAlloc == 2
atEvAllocArray == 3
atEvAllocLarge == 4
atEvAllocLargeNoscan == 5
atEvAllocLargeArray == 6
atEvAllocLargeArrayNoscan == 7
atEvSpanRelease == 8
atEvSweep == 9
atEvFree == 10
atEvSweepTerm == 11
atEvMarkTerm == 12
atEvSync == 13
atEvBatchStart == 14
atEvBatchEnd == 15
atEvStackAlloc == 16
atEvStackFree == 17

\* Stand-in for ^uint64(0) (see the representation notes).
MaxUint64 == 2147483647

\* EventKind (event.go).
EventBad == 0
EventAlloc == 1
EventFree == 2
EventGCStart == 3
EventGCEnd == 4
EventStackAlloc == 5
EventStackFree == 6

\* Event{} : the zero event.
ZeroEvent ==
  [Timestamp |-> 0, Address |-> 0, Size |-> 0, P |-> 0,
   Array |-> FALSE, PointerFree |-> FALSE, Kind |-> EventBad]

doneEvent == [ZeroEvent EXCEPT !.Timestamp = MaxUint64]


(***************************************************************************)
(* Byte buffers.  A batch is stored as the sequence of its meaningful      *)
(* bytes; the file pads every batch with zero bytes up to batchSize.       *)
(***************************************************************************)

\* The byte at 0-based offset i of a zero-padded batch.
ByteAt(buf, i) == IF i < Len(buf) THEN buf[i + 1] ELSE 0

\* parseVarint(buf[off:off+avail]): little-endian base-128, at most 10 bytes.
RECURSIVE parseVarintLoop(_, _, _, _, _, _)
parseVarintLoop(buf, off, avail, i, shift, result) ==
  IF i >= avail
    THEN [n |-> 0, val |-> 0, err |-> "not enough bytes left to decode varint"]
    ELSE LET byte == ByteAt(buf, off + i)
             group == byte % 128
             r == result + (IF group = 0 THEN 0 ELSE group * Pow2(shift))
         IN IF byte < 128
              THEN [n |-> i + 1, val |-> r, err |-> ""]
              ELSE IF shift + 7 >= 64
                     THEN [n |-> 0, val |-> 0, err |-> "varint too long"]
                     ELSE parseVarintLoop(buf, off, avail, i + 1, shift + 7, r)

parseVarint(buf, off, avail) == parseVarintLoop(buf, off, avail, 0, 0, 0)

\* parseBatchHeader(buf[:16]) -> (pid, ticks, err).
parseBatchHeader(buf) ==
  LET bufSize == 16 IN
  IF ByteAt(buf, 0) # atEvBatchStart
    THEN [pid |-> 0, ticks |-> 0, err |-> "expected batch start event"]
    ELSE LET v1 == parseVarint(buf, 1, bufSize - 1)
             idx == 1 + v1.n
         IN IF v1.err # ""
              THEN [pid |-> 0, ticks |-> 0, err |-> v1.err]
              ELSE IF ByteAt(buf, idx) # atEvSync
                     THEN [pid |-> 0, ticks |-> 0, err |-> "expected sync event"]
                     ELSE LET v2 == parseVarint(buf, idx + 1, bufSize - idx - 1)
                          IN IF v2.err # ""
                               THEN [pid |-> 0, ticks |-> 0, err |-> v2.err]
                               ELSE [pid |-> v1.val, ticks |-> v2.val, err |-> ""]

\* batchOffset.headerSize().
boHeaderSize(bo) == 3 + (Len64(bo.startTicks) + 6) \div 7

\* classToSize of package goat (the runtime's size-class table); only the
\* first classes are tabulated.
classToSize(class) ==
  LET table == <<0, 8, 16, 32, 48, 64, 80, 96, 112, 128>>
  IN IF class + 1 <= Len(table) THEN table[class + 1] ELSE 0

(***************************************************************************)
(* batchReader.                                                            *)
(***************************************************************************)

\* The zero batchReader.  readBuf is the slice batchBuf[readOff:readOff+readLen].
ZeroBatchReader ==
  [next |-> ZeroEvent, syncTick |-> 0, allocBase |-> EmptyMap, freeBase |-> 0,
   sweepStart |-> 0, batchBuf |-> <<>>, readOff |-> 0, readLen |-> 0]

\* m[class] = base with a zero base left unwritten.
SetBaseKeep(m, class, base) == IF base = 0 THEN m ELSE Put(m, class, base)

\* m[class] = base on the [255]uint64 array, kept canonical (zero is absent).
SetBase(m, class, base) == IF base = 0 THEN Del(m, class) ELSE Put(m, class, base)

\* The result of decoding one record: the reader, whether an event was
\* produced, and the error ("" for none).
Decoded(b, have, err) == [b |-> b, have |-> have, err |-> err]

\* Parse k consecutive varints starting at offset off of readBuf.
RECURSIVE parseVarints(_, _, _, _)
parseVarints(b, off, k, acc) ==
  IF k = 0 THEN [vals |-> acc, size |-> off, bad |-> 0]
  ELSE LET v == parseVarint(b.batchBuf, b.readOff + off, b.readLen - off)
       IN IF v.err # ""
            THEN [vals |-> acc, size |-> off, bad |-> Len(acc) + 1]
            ELSE parseVarints(b, off + v.n, k - 1, Append(acc, v.val))

\* The records whose tag is followed by a class or order byte.
hasSecondByte(evKind) ==
  evKind \in {atEvSpanAcquire, atEvAlloc, atEvAllocArray, atEvSpanRelease, atEvStackAlloc}

\* One iteration of the decoding loop of batchReader.nextEvent.
decodeRecord(b) ==
  LET evKind == ByteAt(b.batchBuf, b.readOff)
      byte1 == ByteAt(b.batchBuf, b.readOff + 1)
      adv(bb, size) == [bb EXCEPT !.readOff = @ + size, !.readLen = @ - size]
      isArray == evKind \in {atEvAllocArray, atEvAllocLargeArray, atEvAllocLargeArrayNoscan}
  IN
  \* "b.readBuf[size]" with the tag the last byte of readBuf.
  IF hasSecondByte(evKind) /\ b.readLen < 2
    THEN Decoded(b, FALSE, "panic: index out of range")
  ELSE
  CASE evKind = atEvSpanAcquire ->
         LET r == parseVarints(b, 2, 1, <<>>) IN
         IF r.bad # 0 THEN Decoded(b, FALSE, "parsing span base")
         ELSE IF byte1 >= 255 THEN Decoded(b, FALSE, "panic: index out of range")
         ELSE Decoded(adv([b EXCEPT !.allocBase = SetBase(@, byte1, r.vals[1])], r.size),
                      FALSE, "")
    [] evKind \in {atEvAlloc, atEvAllocArray} ->
         LET b1 == [b EXCEPT !.next.Array = isArray \/ @, !.next.Kind = EventAlloc]
             r == parseVarints(b1, 2, 3, <<>>)
         IN IF r.bad = 1 THEN Decoded(b1, TRUE, "parsing offset for alloc")
            ELSE IF r.bad = 2 THEN Decoded(b1, TRUE, "parsing size for alloc")
            ELSE IF r.bad = 3 THEN Decoded(b1, TRUE, "parsing tick delta for alloc")
            ELSE IF byte1 >= 255 THEN Decoded(b1, TRUE, "panic: index out of range")
            ELSE IF byte1 >= 2 /\ Get(b1.allocBase, byte1, 0) = 0
              THEN Decoded(b1, TRUE, "allocation from unacquired span class")
            ELSE Decoded(adv([b1 EXCEPT
                                !.next.Timestamp = b1.syncTick + r.vals[3],
                                !.next.Address = Get(b1.allocBase, byte1, 0) + r.vals[1],
                                !.next.Size = classToSize(byte1) - r.vals[2]], r.size),
                         TRUE, "")
    [] evKind \in {atEvAllocLarge, atEvAllocLargeNoscan,
                   atEvAllocLargeArray, atEvAllocLargeArrayNoscan} ->
         LET b1 == [b EXCEPT !.next.Array = isArray \/ @, !.next.Kind = EventAlloc]
             r == parseVarints(b1, 1, 3, <<>>)
         IN IF r.bad = 1 THEN Decoded(b1, TRUE, "parsing address for large alloc")
            ELSE IF r.bad = 2 THEN Decoded(b1, TRUE, "parsing size for large alloc")
            ELSE IF r.bad = 3 THEN Decoded(b1, TRUE, "parsing tick delta for alloc")
            ELSE Decoded(adv([b1 EXCEPT
                                !.next.Timestamp = b1.syncTick + r.vals[3],
                                !.next.Address = r.vals[1],
                                !.next.Size = r.vals[2]], r.size),
                         TRUE, "")
    [] evKind = atEvSpanRelease ->
         IF byte1 >= 255 THEN Decoded(b, FALSE, "panic: index out of range")
         ELSE IF Get(b.allocBase, byte1, 0) = 0
           THEN Decoded(b, FALSE, "release of unacquired span class")
         ELSE Decoded(adv([b EXCEPT !.allocBase = SetBase(@, byte1, 0)], 2), FALSE, "")
    [] evKind = atEvSweep ->
         LET r == parseVarints(b, 1, 2, <<>>) IN
         IF r.bad = 1 THEN Decoded(b, FALSE, "parsing ticks for sweep")
         ELSE LET b1 == [b EXCEPT !.sweepStart = b.syncTick + r.vals[1]] IN
              IF r.bad = 2 THEN Decoded(b1, FALSE, "parsing tick delta for sweep")
              ELSE Decoded(adv([b1 EXCEPT !.freeBase = r.vals[2]], r.size), FALSE, "")
    [] evKind = atEvFree ->
         LET b1 == [b EXCEPT !.next.Kind = EventFree]
             r == parseVarints(b1, 1, 1, <<>>)
         IN IF r.bad # 0 THEN Decoded(b1, TRUE, "parsing offset for free")
            ELSE Decoded(adv([b1 EXCEPT
                                !.next.Timestamp = b1.sweepStart,
                                !.next.Address = b1.freeBase + r.vals[1]], r.size),
                         TRUE, "")
    [] evKind \in {atEvSweepTerm, atEvMarkTerm} ->
         LET b1 == [b EXCEPT !.next.Kind =
                       IF evKind = atEvSweepTerm THEN EventGCStart ELSE EventGCEnd]
             r == parseVarints(b1, 1, 1, <<>>)
         IN IF r.bad # 0 THEN Decoded(b1, TRUE, "parsing termination event timestamp")
            ELSE Decoded(adv([b1 EXCEPT !.next.Timestamp = b1.syncTick + r.vals[1]],
                             r.size), TRUE, "")
    [] evKind = atEvSync ->
         LET r == parseVarints(b, 1, 1, <<>>) IN
         IF r.bad # 0 THEN Decoded(b, FALSE, "parsing sync event timestamp")
         ELSE Decoded(adv([b EXCEPT !.syncTick = r.vals[1]], r.size), FALSE, "")
    [] evKind = atEvBatchEnd -> Decoded(b, FALSE, "streamEnd")
    [] evKind = atEvBatchStart -> Decoded(b, FALSE, "unexpected header found")
    [] evKind = atEvStackAlloc ->
         LET b1 == [b EXCEPT !.next.Kind = EventStackAlloc]
             r == parseVarints(b1, 2, 2, <<>>)
         IN IF r.bad # 0 THEN Decoded(b1, TRUE, "parsing stack alloc")
            ELSE Decoded(adv([b1 EXCEPT
                                !.next.Timestamp = b1.syncTick + r.vals[2],
                                !.next.Address = r.vals[1],
                                !.next.Size = Pow2(byte1)], r.size),
                         TRUE, "")
    [] evKind = atEvStackFree ->
         LET b1 == [b EXCEPT !.next.Kind = EventStackFree]
             r == parseVarints(b1, 1, 2, <<>>)
         IN IF r.bad # 0 THEN Decoded(b1, TRUE, "parsing stack free")
            ELSE Decoded(adv([b1 EXCEPT
                                !.next.Timestamp = b1.syncTick + r.vals[2],
                                !.next.Address = r.vals[1]], r.size),
                         TRUE, "")
    [] OTHER -> Decoded(b, FALSE, "unknown event type")

\* The loop "for !haveEvent" of batchReader.nextEvent.
RECURSIVE nextEventLoop(_)
nextEventStep(d) ==
  IF d.err # "" THEN [b |-> d.b, err |-> d.err]
  ELSE IF d.have THEN [b |-> d.b, err |-> ""]
  ELSE nextEventLoop(d.b)

nextEventLoop(b) == nextEventStep(decodeRecord(b))

\* batchReader.nextEvent: err is "", "streamEnd" or a decode error.
nextEvent(b) ==
  IF b.readLen = 0
    THEN [b |-> b, err |-> "streamEnd"]
    ELSE nextEventLoop([b EXCEPT !.next = ZeroEvent])

(***************************************************************************)
(* NewParser: the sharded scan and the per-processor merge.                *)
(* A source is [header, tail, batches]: the bytes of its header, the bytes  *)
(* of its batches, and the number of bytes its length differs by from      *)
(* headerSize + Len(batches) * batchSize.                                  *)
(***************************************************************************)

SrcLen(r) == headerSize + Len(r.batches) * batchSize + r.tail

\* parseHeader with the two version bytes taken in the opposite order.
parseHeaderLittleEndian(r) == r.header[4] * 256 + r.header[3]

\* parseHeader: "version := uint16(header[2])<<8 | uint16(header[3])".
parseHeader(r) == r.header[3] * 256 + r.header[4]

\* shards, after "if shards > numBatches { shards = 1 }".
numShards(gomaxprocs, numBatches) ==
  IF gomaxprocs > numBatches THEN 1 ELSE gomaxprocs

\* batchesPerShard.
batchesPerShard(shards, numBatches) ==
  IF numBatches % shards # 0
    THEN numBatches \div (shards - 1)
    ELSE numBatches \div shards

\* start and end (exclusive) of shard i, in batches.
shardStart(shards, numBatches, i) == batchesPerShard(shards, numBatches) * i

shardEnd(shards, numBatches, i) ==
  Min(batchesPerShard(shards, numBatches) * (i + 1), numBatches)

\* Stable insertion of a batchOffset into a list sorted by startTicks
\* (sort.Slice on the short per-shard lists is an insertion sort).
RECURSIVE insertSorted(_, _)
insertSorted(list, bo) ==
  IF list = <<>> THEN <<bo>>
  ELSE IF bo.startTicks < Head(list).startTicks THEN <<bo>> \o list
  ELSE <<Head(list)>> \o insertSorted(Tail(list), bo)

RECURSIVE sortByTicks(_)
sortByTicks(list) ==
  IF list = <<>> THEN <<>>
  ELSE insertSorted(sortByTicks(SubSeq(list, 1, Len(list) - 1)), list[Len(list)])

\* The scan loop of one shard over batches b..end-1 (0-based); index is a
\* function from 0..len-1 to lists.
RECURSIVE scanBatches(_, _, _, _)
scanBatches(r, b, end, index) ==
  IF b >= end THEN [index |-> index, err |-> ""]
  ELSE LET h == parseBatchHeader(r.batches[b + 1])
           len == Cardinality(DOMAIN index)
           grown == IF h.pid >= len
                      THEN [q \in 0..h.pid |-> IF q < len THEN index[q] ELSE <<>>]
                      ELSE index
           bo == [startTicks |-> h.ticks, fileOffset |-> b * batchSize + headerSize]
       IN IF h.err # "" THEN [index |-> index, err |-> h.err]
          ELSE scanBatches(r, b + 1, end, [grown EXCEPT ![h.pid] = Append(@, bo)])

\* One shard's goroutine: scan, then sort every per-P list.
scanShard(r, shards, numBatches, i) ==
  LET res == scanBatches(r, shardStart(shards, numBatches, i),
                         shardEnd(shards, numBatches, i), [q \in 0..15 |-> <<>>])
  IN [index |-> [q \in DOMAIN res.index |-> sortByTicks(res.index[q])],
      err |-> res.err]

\* maxP: the longest per-shard index.
maxPOf(perShard) ==
  LET lens == {Cardinality(DOMAIN perShard[i]) : i \in DOMAIN perShard}
  IN IF lens = {} THEN 0 ELSE CHOOSE m \in lens : \A l \in lens : l <= m

\* The scan over the shards with the last of the least heads winning.
RECURSIVE minShardFromLast(_, _, _, _, _, _)
minShardFromLast(heads, pid, i, shards, minTicks, minShard) ==
  IF i >= shards THEN minShard
  ELSE IF pid \in DOMAIN heads[i] /\ Len(heads[i][pid]) > 0
          /\ heads[i][pid][1].startTicks <= minTicks
         THEN minShardFromLast(heads, pid, i + 1, shards,
                               heads[i][pid][1].startTicks, i)
         ELSE minShardFromLast(heads, pid, i + 1, shards, minTicks, minShard)

\* The shard whose head for pid has the least startTicks (first wins), or -1.
RECURSIVE minShardFrom(_, _, _, _, _, _)
minShardFrom(heads, pid, i, shards, minTicks, minShard) ==
  IF i >= shards THEN minShard
  ELSE IF pid \in DOMAIN heads[i] /\ Len(heads[i][pid]) > 0
          /\ heads[i][pid][1].startTicks < minTicks
         THEN minShardFrom(heads, pid, i + 1, shards, heads[i][pid][1].startTicks, i)
         ELSE minShardFrom(heads, pid, i + 1, shards, minTicks, minShard)

\* The merge loop of one worker for one pid.
RECURSIVE mergePid(_, _, _, _, _)
mergePid(perShard, pid, shards, want, acc) ==
  IF Len(acc) >= want THEN acc
  ELSE LET m == minShardFrom(perShard, pid, 0, shards, MaxUint64, -1)
       IN mergePid([perShard EXCEPT ![m][pid] = Tail(@)], pid, shards, want,
                   Append(acc, perShard[m][pid][1]))

perPidBatches(perShard, pid, shards) ==
  SetSum({i \in 0..(shards - 1) : pid \in DOMAIN perShard[i]},
         [i \in 0..(shards - 1) |->
            IF pid \in DOMAIN perShard[i] THEN Len(perShard[i][pid]) ELSE 0])

\* The merged index: one ordered list of batches for every pid below maxP.
mergeIndex(perShard, shards) ==
  [pid \in 0..(maxPOf(perShard) - 1) |->
     mergePid(perShard, pid, shards, perPidBatches(perShard, pid, shards), <<>>)]

(***************************************************************************)
(* Parser: refill, next, Next.  A parser is [index, batches]; src is the   *)
(* source it reads.                                                        *)
(***************************************************************************)

\* Parser.refill(pid).
refillDone(p, pid, ne) ==
  [p |-> [p EXCEPT !.index[pid] = Tail(@), !.batches[pid] = ne.b],
   err |-> IF ne.err = "streamEnd" THEN "" ELSE ne.err]

refillBatch(p, r, pid, bo) ==
  refillDone(p, pid,
    nextEvent([p.batches[pid] EXCEPT
                 !.batchBuf = r.batches[(bo.fileOffset - headerSize) \div batchSize + 1],
                 !.readOff = boHeaderSize(bo),
                 !.readLen = batchSize - boHeaderSize(bo),
                 !.syncTick = bo.startTicks]))

refill(p, r, pid) ==
  IF Len(p.index[pid]) = 0
    THEN [p |-> [p EXCEPT !.batches[pid].next = doneEvent], err |-> ""]
    ELSE refillBatch(p, r, pid, p.index[pid][1])

\* Parser.next(pid).
nextRefilled(ev, rf) ==
  IF rf.err # ""
    THEN [p |-> rf.p, ev |-> ZeroEvent, err |-> rf.err]
    ELSE [p |-> rf.p, ev |-> ev, err |-> ""]

nextRead(p1, r, pid, ev, err) ==
  IF err # "" /\ err # "streamEnd"
    THEN [p |-> p1, ev |-> ZeroEvent, err |-> err]
    ELSE IF err = "streamEnd"
           THEN nextRefilled(ev, refill(p1, r, pid))
           ELSE [p |-> p1, ev |-> ev, err |-> ""]

nextWith(p, r, pid, ne) ==
  nextRead([p EXCEPT !.batches[pid] = ne.b], r, pid,
           [p.batches[pid].next EXCEPT !.P = pid - 1], ne.err)

next(p, r, pid) == nextWith(p, r, pid, nextEvent(p.batches[pid]))

\* Parser.peek(pid).
peek(p, pid) == p.batches[pid].next.Timestamp

\* A selection loop that lets a later pid win a tie.
RECURSIVE minPidFromLast(_, _, _, _)
minPidFromLast(p, pid, minTick, minPid) ==
  IF pid \notin DOMAIN p.batches THEN minPid
  ELSE IF peek(p, pid) <= minTick /\ peek(p, pid) < MaxUint64
         THEN minPidFromLast(p, pid + 1, peek(p, pid), pid)
         ELSE minPidFromLast(p, pid + 1, minTick, minPid)

\* The selection loop of Parser.Next: the first pid with the least timestamp
\* below ^uint64(0), or -1.
RECURSIVE minPidFrom(_, _, _, _)
minPidFrom(p, pid, minTick, minPid) ==
  IF pid \notin DOMAIN p.batches THEN minPid
  ELSE IF peek(p, pid) < minTick
         THEN minPidFrom(p, pid + 1, peek(p, pid), pid)
         ELSE minPidFrom(p, pid + 1, minTick, minPid)

selectPid(p) == minPidFrom(p, 0, MaxUint64, -1)

\* Parser.Next: err is "", "EOF" or a decode error.
parserNext(p, r) ==
  LET minPid == selectPid(p)
  IN IF minPid < 0 THEN [p |-> p, ev |-> ZeroEvent, err |-> "EOF"]
     ELSE next(p, r, minPid)

\* The loop "for pid := range index { p.next(pid) }" of NewParser.
RECURSIVE primeFrom(_, _, _)
primeStep(n, r, pid) ==
  IF n.err # "" THEN [p |-> n.p, err |-> n.err]
  ELSE primeFrom(n.p, r, pid + 1)

primeFrom(p, r, pid) ==
  IF pid \notin DOMAIN p.index THEN [p |-> p, err |-> ""]
  ELSE primeStep(next(p, r, pid), r, pid)

(***************************************************************************)
(* Traces.  The runtime writes a batch as BatchStart(pid) Sync(ticks), its *)
(* records, and BatchEnd; the encoders below produce the bytes.            *)
(***************************************************************************)

RECURSIVE encodeVarint(_)
encodeVarint(u) ==
  IF u < 128 THEN <<u>> ELSE <<128 + (u % 128)>> \o encodeVarint(u \div 128)

encodeBatch(pid, ticks, body) ==
  <<atEvBatchStart>> \o encodeVarint(pid) \o <<atEvSync>> \o encodeVarint(ticks)
    \o body \o <<atEvBatchEnd>>

recAllocLarge(addr, size, delta) ==
  <<atEvAllocLarge>> \o encodeVarint(addr) \o encodeVarint(size) \o encodeVarint(delta)

recSpanAcquire(class, base) == <<atEvSpanAcquire, class>> \o encodeVarint(base)

recAlloc(class, offset, sizeDiff, delta) ==
  <<atEvAlloc, class>> \o encodeVarint(offset) \o encodeVarint(sizeDiff)
    \o encodeVarint(delta)

recSweep(delta, base) == <<atEvSweep>> \o encodeVarint(delta) \o encodeVarint(base)

recFree(offset) == <<atEvFree>> \o encodeVarint(offset)

recSweepTerm(delta) == <<atEvSweepTerm>> \o encodeVarint(delta)

recMarkTerm(delta) == <<atEvMarkTerm>> \o encodeVarint(delta)

recStackAlloc(order, base, delta) ==
  <<atEvStackAlloc, order>> \o encodeVarint(base) \o encodeVarint(delta)

recStackFree(base, delta) ==
  <<atEvStackFree>> \o encodeVarint(base) \o encodeVarint(delta)

\* The batch bodies of the modelled traces, each with the number of events
\* it yields and the largest tick delta of its events.
Bodies ==
  << [bytes |-> <<>>, events |-> 0, span |-> 0],
     [bytes |-> recStackAlloc(11, 64, 0) \o recMarkTerm(5), events |-> 2, span |-> 5],
     [bytes |-> recSpanAcquire(3, 4096) \o recAlloc(3, 64, 0, 5), events |-> 1, span |-> 5],
     [bytes |-> recSweep(3, 8192) \o recFree(128) \o recFree(256), events |-> 2, span |-> 3],
     [bytes |-> recSweepTerm(2) \o recAllocLarge(4096, 40960, 7), events |-> 2, span |-> 7],
     [bytes |-> recFree(512), events |-> 1, span |-> 0] >>

\* Bounds of the modelled traces.
MaxBatches == 2

MaxIndexBatches == 5

MaxProcs == 2

MaxIndexProcs == 4

TracePids == {1, 2}

TraceTicks == {10, 20}

\* Batch descriptions [pid, ticks, body] of length n.
RECURSIVE batchDescs(_, _)
batchDescs(n, bodies) ==
  IF n = 0 THEN {<<>>}
  ELSE {Append(d, [pid |-> q, ticks |-> t, body |-> b]) :
          d \in batchDescs(n - 1, bodies),
          q \in TracePids, t \in TraceTicks, b \in bodies}

\* The runtime emits every processor's batches over disjoint, increasing
\* tick ranges: two batches of one processor never overlap.
wellFormed(d) ==
  \A i, j \in 1..Len(d) :
     (i # j /\ d[i].pid = d[j].pid /\ d[i].ticks <= d[j].ticks)
        => d[i].ticks + Bodies[d[i].body].span < d[j].ticks

encodeTrace(d) ==
  [i \in 1..Len(d) |-> encodeBatch(d[i].pid, d[i].ticks, Bodies[d[i].body].bytes)]

\* Traces whose batches carry records (all bodies, few batches).
eventTraces ==
  {encodeTrace(d) : d \in {x \in UNION {batchDescs(n, 1..Len(Bodies)) : n \in 0..MaxBatches} :
                              wellFormed(x)}}

\* Traces of header-only batches (many batches; equal start ticks allowed).
headerTraces ==
  {encodeTrace(d) : d \in UNION {batchDescs(n, {1}) : n \in 0..MaxIndexBatches}}

(***************************************************************************)
(* Package toolbox: Bytes, Address, Pages (interface.go).                  *)
(***************************************************************************)

NoP == -1

IsPow2(x) == x = 0 \/ (x > 0 /\ Pow2(Len64(x) - 1) = x)

\* Bytes.AlignUp and Bytes.AlignDown for a power-of-two align.
AlignUp(b, align) == ((b + align - 1) \div align) * align

AlignDown(b, align) == (b \div align) * align

\* Bytes.Pages.
BytesToPages(b, perPage) == AlignUp(b, perPage) \div perPage

\* Bytes.Log2 (b # 0).
Log2(b) == Len64(b) - 1

\* Address.Diff.
Diff(a, b) == IF a < b THEN b - a ELSE a - b

(***************************************************************************)
(* The simulated world: the Stats, the address space, the page, stack and  *)
(* object allocators and the Simulator, in one record.  Operations take a  *)
(* world and return a world; ret and ret2 carry an operation's results,    *)
(* and panic the message of a Go panic ("" while running).  live is the    *)
(* record of what the allocators have handed out: the objects returned by  *)
(* AllocObject and not yet passed to DeadObject, the stacks returned by    *)
(* AllocStack and not yet freed, and the bytes returned by MapAligned.     *)
(***************************************************************************)

Panic(w, msg) == IF w.panic # "" THEN w ELSE [w EXCEPT !.panic = msg]

Ok(w) == w.panic = ""

Ret(w, x) == [w EXCEPT !.ret = x]

Ret2(w, x, y) == IF ~Ok(w) THEN w ELSE [w EXCEPT !.ret = x, !.ret2 = y]

\* ctx.Stats.<field> += d, for the four byte counters and the event counters.
AddStat(w, field, d) == [w EXCEPT !.stats[field] = @ + d]

\* Stats.AddOther / Stats.SubOther (d < 0 for SubOther).
AddOther(w, name, d) ==
  IF name \in DOMAIN w.stats.other
    THEN [w EXCEPT !.stats.other[name] = @ + d]
    ELSE Panic(w, IF d >= 0 THEN "attempted to add to non-existing stat"
                            ELSE "attempted to subtract from non-existing stat")

\* A move of d bytes from FreeBytes to another byte counter.
TakeFree(w, field, d) == AddStat(AddStat(w, "FreeBytes", -d), field, d)

\* ObjectBytes + StackBytes + UnusedBytes + FreeBytes.
bytesAccounted(w) ==
  w.stats.ObjectBytes + w.stats.StackBytes + w.stats.UnusedBytes + w.stats.FreeBytes

\* A look at the byte counters at a point inside an operation: live.balanced
\* turns false, for good, if they do not add up to the bytes mapped.
audit(w) ==
  IF Ok(w) /\ bytesAccounted(w) # w.live.mapped
    THEN [w EXCEPT !.live.balanced = FALSE] ELSE w

(***************************************************************************)
(* AddressSpace48 (address_space.go).                                      *)
(***************************************************************************)

go114PageSize == 8192

go114ChunkPages == 512

go114ChunkBytes == go114ChunkPages * go114PageSize

go114ArenaSize == 67108864

as48PageSize == 4096

\* The model value of 0xc00000000000 = 3 * 2^46, the first address handed
\* out: 3 * 2^28, which the sizes mapped (multiples of go114ArenaSize up to
\* 2^28) divide exactly when they divide 0xc00000000000.
as48Base == 805306368

\* MapAligned: ret is the base, ret2 the size.
MapAligned(w, size, align) ==
  LET sz == AlignUp(size, as48PageSize)
      base == AlignUp(w.asBase, align)
  IN [AddStat(w, "FreeBytes", sz) EXCEPT
        !.asBase = base + sz, !.ret = base, !.ret2 = sz,
        !.live.mapped = @ + sz]

(***************************************************************************)
(* Page allocator Go114 (page/go114.go).  A bitmap is the set of the page  *)
(* numbers (address / go114PageSize) whose bit is set; the chunk list is   *)
(* the sequence of the chunks' bases, head first; a chunk pointer is an    *)
(* index into it, 0 for nil.  A page cache is [base, cache], cache being   *)
(* the set of the set bits of the 64-bit word.                             *)
(***************************************************************************)

emptyGo114PageCache == [base |-> 0, cache |-> 0..63]

pageCacheEmpty(c) == c.cache = 0..63

MinOf(S) == CHOOSE x \in S : \A y \in S : x <= y

\* go114PageCache.alloc, offs being the offsets of the runs of npages clear
\* bits: the loop stops at the first such run, the one with the least offset.
pageCacheAllocAt(c, npages, offs) ==
  IF pageCacheEmpty(c) \/ offs = {} THEN [cache |-> c, addr |-> 0]
  ELSE [cache |-> [c EXCEPT !.cache = @ \cup (MinOf(offs)..(MinOf(offs) + npages - 1))],
        addr |-> c.base + MinOf(offs) * go114PageSize]

\* go114PageCache.alloc.
pageCacheAlloc(c, npages) ==
  pageCacheAllocAt(c, npages,
                   {o \in 0..(64 - npages) :
                      \A j \in o..(o + npages - 1) : j \notin c.cache})

ZeroPages == [chunks |-> <<>>, bits |-> {}, curr |-> 0, currIdx |-> 0]

\* The page number of page i of chunk c.
PageNo(p, c, i) == p.chunks[c] \div go114PageSize + i

\* go114PageBits.get.
pageBitsGet(p, c, i) == PageNo(p, c, i) \in p.bits

\* g.next of chunk c.
nextChunk(p, c) == IF c < Len(p.chunks) THEN c + 1 ELSE 0

\* allocCache handing out the word of page i and leaving it as it is in the
\* bitmap.
allocCacheBitsKept(p, c, i) ==
  LET idx == i \div 64
  IN [pages |-> p,
      cache |-> [base |-> p.chunks[c] + idx * 64 * go114PageSize,
                 cache |-> {b \in 0..63 : PageNo(p, c, idx * 64 + b) \in p.bits}]]

\* go114PageBits.allocCache: the word of page i is handed out whole.
allocCache(p, c, i) ==
  LET idx == i \div 64
      word == {PageNo(p, c, idx * 64 + b) : b \in 0..63}
  IN [pages |-> [p EXCEPT !.bits = @ \cup word],
      cache |-> [base |-> p.chunks[c] + idx * 64 * go114PageSize,
                 cache |-> {b \in 0..63 : PageNo(p, c, idx * 64 + b) \in p.bits}]]

\* go114Pages.grow with the new chunks always linked in before the head.
growAtHead(p, base, size) ==
  IF size % go114ChunkBytes # 0 THEN [pages |-> p, panic |-> "bad size in grow"]
  ELSE [pages |-> [p EXCEPT
                     !.chunks = [j \in 1..(size \div go114ChunkBytes) |->
                                   base + (j - 1) * go114ChunkBytes] \o @,
                     !.curr = 1, !.currIdx = 0],
        panic |-> ""]

\* go114Pages.grow.
grow(p, base, size) ==
  LET n == size \div go114ChunkBytes
      new == [j \in 1..n |-> base + (j - 1) * go114ChunkBytes]
      old == Len(p.chunks)
      q == CASE old = 0 -> [p EXCEPT !.chunks = new]
             [] old > 0 /\ base < p.chunks[1] -> [p EXCEPT !.chunks = new \o @]
             [] old > 0 /\ base >= p.chunks[1] /\ base > p.chunks[old] ->
                  [p EXCEPT !.chunks = @ \o new]
             [] OTHER -> p
      head == IF old > 0 /\ base > p.chunks[old] THEN old + 1 ELSE 1
  IN IF size % go114ChunkBytes # 0 THEN [pages |-> p, panic |-> "bad size in grow"]
     ELSE IF old > 0 /\ base >= p.chunks[1] /\ base <= p.chunks[old]
       THEN [pages |-> p, panic |-> "nil pointer dereference"]
     ELSE IF p.curr = 0 \/ base < p.chunks[p.curr]
       THEN [pages |-> [q EXCEPT !.curr = head, !.currIdx = 0], panic |-> ""]
       ELSE [pages |-> q, panic |-> ""]

\* The pages of the chunk list are numbered in list order: page i of chunk c
\* has the ordinal (c - 1) * go114ChunkPages + i.
pageOrdinal(c, i) == (c - 1) * go114ChunkPages + i

ordinalFree(p, k) ==
  ~pageBitsGet(p, k \div go114ChunkPages + 1, k % go114ChunkPages)

\* The chunk pointer and page index of the least of a set of ordinals.
leastOrdinal(S) ==
  [ptr |-> MinOf(S) \div go114ChunkPages + 1, idx |-> MinOf(S) % go114ChunkPages]

\* The loop of go114Pages.findFirstFree from page i of chunk c on, free being
\* the clear bits from there on.
firstFreeAmong(free, c, i) ==
  IF c = 0 THEN [curr |-> 0, currIdx |-> i]
  ELSE IF free = {} THEN [curr |-> 0, currIdx |-> 0]
  ELSE [curr |-> leastOrdinal(free).ptr, currIdx |-> leastOrdinal(free).idx]

\* The first clear bit lies at most as many pages on as there are bits set.
firstFreeFrom(p, c, i) ==
  firstFreeAmong({k \in pageOrdinal(c, i)..
                         Min(pageOrdinal(c, i) + Cardinality(p.bits),
                             Len(p.chunks) * go114ChunkPages - 1) :
                    ordinalFree(p, k)},
                 c, i)

\* go114Pages.findFirstFree: the pages with curr and currIdx advanced.
setCurr(p, f) == [p EXCEPT !.curr = f.curr, !.currIdx = f.currIdx]

findFirstFree(p) == setCurr(p, firstFreeFrom(p, p.curr, p.currIdx))

\* The ordinals of the set bits.
setOrdinals(p) ==
  {pageOrdinal(x[2], x[1] - p.chunks[x[2]] \div go114PageSize) :
     x \in {y \in p.bits \X (1..Len(p.chunks)) :
              /\ y[1] >= p.chunks[y[2]] \div go114PageSize
              /\ y[1] < p.chunks[y[2]] \div go114PageSize + go114ChunkPages}}

\* The ordinals at or after from at which a run of n clear bits starts, among
\* from itself and the pages that follow a set bit.
runStarts(p, from, n, set) ==
  {k \in {from} \cup {b + 1 : b \in {x \in set : x >= from}} :
     /\ k + n <= Len(p.chunks) * go114ChunkPages
     /\ \A j \in k..(k + n - 1) : ordinalFree(p, j)}

\* The search loop of go114Pages.find: the first run of n clear bits in list
\* order, [ptr, idx], ptr = 0 for nil.
findRunAmong(starts) ==
  IF starts = {} THEN [ptr |-> 0, idx |-> 0] ELSE leastOrdinal(starts)

\* go114Pages.find, on pages whose curr findFirstFree has advanced.
findFrom(p, n) ==
  IF p.curr = 0 THEN [ptr |-> 0, idx |-> 0]
  ELSE findRunAmong(runStarts(p, pageOrdinal(p.curr, p.currIdx), n, setOrdinals(p)))

\* go114Pages.alloc: set size bits from page baseIdx of chunk basePtr on.
RECURSIVE pagesAlloc(_, _, _, _)
pagesAlloc(p, c, i, size) ==
  IF c = 0 \/ size = 0
    THEN [pages |-> p, panic |-> "ran out of pages to alloc"]
    ELSE LET k == Min(size, Max(go114ChunkPages - i, 0))
             q == [p EXCEPT !.bits = @ \cup {PageNo(p, c, i + j) : j \in 0..(k - 1)}]
         IN IF k = size THEN [pages |-> q, panic |-> ""]
            ELSE pagesAlloc(q, nextChunk(p, c), 0, size - k)

\* The clearing loop of go114Pages.free.
RECURSIVE pagesClear(_, _, _, _)
pagesClear(p, c, i, size) ==
  IF c = 0 \/ size = 0
    THEN [pages |-> p, panic |-> IF c # 0 /\ ~pageBitsGet(p, c, i)
                                   THEN "attempted to double free page"
                                   ELSE "ran out of pages to free"]
    ELSE LET k == Min(size, Max(go114ChunkPages - i, 0))
             run == {PageNo(p, c, i + j) : j \in 0..(k - 1)}
         IN IF ~(run \subseteq p.bits)
              THEN [pages |-> p, panic |-> "attempted to double free page"]
              ELSE IF k = size THEN [pages |-> [p EXCEPT !.bits = @ \ run], panic |-> ""]
              ELSE pagesClear([p EXCEPT !.bits = @ \ run], nextChunk(p, c), 0, size - k)

\* go114Pages.free without the rewind of the walk cursor.
pagesFreeNoRewind(p, basePtr, baseIdx, size) ==
  IF p.curr = 0 THEN [pages |-> p, panic |-> "nil pointer dereference"]
  ELSE pagesClear(p, basePtr, baseIdx, size)

\* go114Pages.free.
pagesFree(p, basePtr, baseIdx, size) ==
  IF p.curr = 0 THEN [pages |-> p, panic |-> "nil pointer dereference"]
  ELSE IF (basePtr = p.curr /\ baseIdx < p.currIdx)
          \/ p.chunks[basePtr] < p.chunks[p.curr]
    THEN pagesClear([p EXCEPT !.curr = basePtr, !.currIdx = baseIdx],
                    basePtr, baseIdx, size)
    ELSE pagesClear(p, basePtr, baseIdx, size)


\* The page cache go114Pages.allocToCache builds, stored in g.pageCaches[P];
\* p is the pages after findFirstFree and ac the result of allocCache.
cacheTaken(w, P, ac) ==
  [w EXCEPT !.pa.pages = ac.pages, !.pa.pageCaches = Put(@, P, ac.cache)]

allocToCacheAt(w, P, p) ==
  IF p.curr = 0
    THEN [w EXCEPT !.pa.pages = p,
                   !.pa.pageCaches = Put(@, P, emptyGo114PageCache)]
    ELSE cacheTaken(w, P, allocCache(p, p.curr, p.currIdx))

\* go114Pages.allocToCache, with the result stored in g.pageCaches[P].
allocToCache(w, P) == allocToCacheAt(w, P, findFirstFree(w.pa.pages))

\* allocMarked without go114Pages.alloc: the address is returned and the bits
\* of the run stay clear.
allocUnmarked(w, p, f, r) ==
  [w EXCEPT !.pa.pages = p, !.ret = p.chunks[f.ptr] + f.idx * go114PageSize]

\* "g.pages.alloc(basePtr, baseIdx, n)" and the address returned; r is the
\* result of go114Pages.alloc on the run f found in the pages p.
allocMarked(w, p, f, r) ==
  IF r.panic # "" THEN Panic(w, r.panic)
  ELSE [w EXCEPT !.pa.pages = r.pages,
                 !.ret = p.chunks[f.ptr] + f.idx * go114PageSize]

allocRun(w, n, p, f) ==
  IF f.ptr = 0 THEN Panic(w, "out of memory?")
  ELSE allocMarked(w, p, f, pagesAlloc(p, f.ptr, f.idx, n))

allocSearched(w, n, p) == allocRun(w, n, p, findFrom(p, n))

\* "basePtr, baseIdx = g.pages.find(n)" followed by the allocation of the run.
allocFound(w, n) ==
  IF ~Ok(w) THEN w ELSE allocSearched(w, n, findFirstFree(w.pa.pages))

growInto(w, g) ==
  IF g.panic # "" THEN Panic(w, g.panic) ELSE [w EXCEPT !.pa.pages = g.pages]

\* "g.pages.grow(g.addressSpace.MapAligned(...))" on the mapped world.
growMapped(w) == growInto(w, grow(w.pa.pages, w.ret, w.ret2))

\* Go114.AllocPages past the page cache, p being the pages after the
\* findFirstFree of the first find.
allocOrGrow(w, n, p) ==
  IF findFrom(p, n).ptr # 0 THEN allocSearched(w, n, p)
  ELSE allocFound(
         growMapped(MapAligned([w EXCEPT !.pa.pages = p],
                               AlignUp(n * go114PageSize, go114ArenaSize),
                               go114ArenaSize)), n)

allocPagesGlobal(w, n) == allocOrGrow(w, n, findFirstFree(w.pa.pages))

\* "if base := cache.alloc(n); base != 0 { return base }" and what follows,
\* r being the result of cache.alloc.
cacheAllocated(w, P, n, r) ==
  IF r.addr # 0
    THEN [w EXCEPT !.pa.pageCaches[P] = r.cache, !.ret = r.addr]
    ELSE allocPagesGlobal(w, n)

allocFromPageCache(w, P, n) ==
  cacheAllocated(w, P, n, pageCacheAlloc(w.pa.pageCaches[P], n))

\* Go114.AllocPages: ret is the base of the run.
AllocPages(w, P, n) ==
  IF ~Ok(w) THEN w
  ELSE IF P # NoP /\ n < 16
    THEN IF P \in DOMAIN w.pa.pageCaches /\ ~pageCacheEmpty(w.pa.pageCaches[P])
           THEN allocFromPageCache(w, P, n)
           ELSE allocFromPageCache(allocToCache(w, P), P, n)
    ELSE allocPagesGlobal(w, n)

\* The greatest of a set of chunk pointers, 0 (nil) for none.
lastChunk(cs) == IF cs = {} THEN 0 ELSE CHOOSE c \in cs : \A d \in cs : d <= c

\* The chunk FreePages finds for addr, walking back from the tail (0: nil).
chunkOf(p, addr) == lastChunk({c \in 1..Len(p.chunks) : addr >= p.chunks[c]})

pagesFreed(w, r) ==
  IF r.panic # "" THEN Panic(w, r.panic) ELSE [w EXCEPT !.pa.pages = r.pages]

freePagesIn(w, addr, size, c) ==
  IF c = 0 THEN Panic(w, "nil pointer dereference")
  ELSE pagesFreed(w, pagesFree(w.pa.pages, c,
                               BytesToPages(Diff(addr, w.pa.pages.chunks[c]),
                                            go114PageSize), size))

\* FreePages that leaves the pages allocated.
FreePagesKept(w, addr, size) ==
  IF ~Ok(w) THEN w
  ELSE IF addr % go114PageSize # 0 THEN Panic(w, "unaligned free address")
  ELSE w

\* Go114.FreePages.
FreePages(w, addr, size) ==
  IF ~Ok(w) THEN w
  ELSE IF addr % go114PageSize # 0 THEN Panic(w, "unaligned free address")
  ELSE freePagesIn(w, addr, size, chunkOf(w.pa.pages, addr))

\* FreePages for every [addr, n] of a list, in order.
RECURSIVE FreePagesAll(_, _)
FreePagesAll(w, runs) ==
  IF runs = <<>> THEN w
  ELSE FreePagesAll(FreePages(w, Head(runs).addr, Head(runs).n), Tail(runs))

(***************************************************************************)
(* Stack allocator Go114 (stack/go114.go).  A stack is [lo, hi]; a free    *)
(* list is [list, size] with the head of the list first; a span is         *)
(* [base, list, allocCount, stackSize] and lives in the span list that     *)
(* holds it; pool, poolFull and a P's cache are sequences indexed by       *)
(* order + 1; large maps an order to its free list.                        *)
(***************************************************************************)

go114LogMinStackSize == 11

go114MinStackSize == 2048

go114NumOrders == 4

go114CacheSize == go114MinStackSize * Pow2(go114NumOrders)

go114CachePages == BytesToPages(go114CacheSize, go114PageSize)

ZeroFreeList == [list |-> <<>>, size |-> 0]

\* stackFreeList.push.
flPush(fl, st) == [list |-> <<st>> \o fl.list, size |-> fl.size + Diff(st.lo, st.hi)]

\* stackFreeList.pop, on a list that is not empty.
flPop(fl) == [list |-> Tail(fl.list),
              size |-> fl.size - Diff(Head(fl.list).lo, Head(fl.list).hi)]

\* The stacks of a new span: every stack is pushed on the head of the list.
newSpanStacks(base, size) ==
  LET n == (go114CacheSize + size - 1) \div size
  IN [k \in 1..n |-> [lo |-> base + (n - k) * size, hi |-> base + (n - k + 1) * size]]

\* allocFromPool once g.pool[order] is known to hold a span.
popFromPool(w, order) ==
  IF ~Ok(w) THEN w
  ELSE LET s == Head(w.sa.pool[order + 1])
           stk == Head(s.list)
           s1 == [s EXCEPT !.list = Tail(@), !.allocCount = @ + 1]
       IN IF s1.list = <<>>
            THEN [w EXCEPT !.sa.pool[order + 1] = Tail(@),
                           !.sa.poolFull[order + 1] = <<s1>> \o @,
                           !.ret = stk.lo, !.ret2 = stk.hi]
            ELSE [w EXCEPT !.sa.pool[order + 1] = <<s1>> \o Tail(@),
                           !.ret = stk.lo, !.ret2 = stk.hi]

\* The new span of allocFromPool, on the world AllocPages returned.
pushNewSpan(w, order, size) ==
  IF ~Ok(w) THEN w
  ELSE [w EXCEPT !.sa.pool[order + 1] =
          <<[base |-> w.ret, list |-> newSpanStacks(w.ret, size),
             allocCount |-> 0, stackSize |-> size]>> \o @]

\* Go114.allocFromPool: ret and ret2 are the stack's lo and hi.
allocFromPool(w, P, size) ==
  LET order == Log2(size) - go114LogMinStackSize
  IN IF w.sa.pool[order + 1] = <<>>
       THEN popFromPool(pushNewSpan(AllocPages(w, P, go114CachePages), order, size),
                        order)
       ELSE popFromPool(w, order)

\* The first span of a list that contains the stack (0: none).
spanOf(list, stk) ==
  LET ks == {k \in 1..Len(list) : stk.lo >= list[k].base
                                   /\ stk.hi <= list[k].base + go114CacheSize}
  IN IF ks = {} THEN 0 ELSE CHOOSE k \in ks : \A j \in ks : k <= j

RemoveAt(list, k) == SubSeq(list, 1, k - 1) \o SubSeq(list, k + 1, Len(list))

\* freeToPool returning the pages of a span as soon as its last stack is
\* freed, during a GC as well.
freeToPoolAtOnce(w, stk) ==
  IF ~Ok(w) THEN w
  ELSE
  LET order == Log2(Diff(stk.lo, stk.hi)) - go114LogMinStackSize
      k == spanOf(w.sa.pool[order + 1], stk)
      kf == spanOf(w.sa.poolFull[order + 1], stk)
      s == IF k # 0 THEN w.sa.pool[order + 1][k] ELSE w.sa.poolFull[order + 1][kf]
      s1 == [s EXCEPT !.list = <<stk>> \o @, !.allocCount = @ - 1]
  IN IF k # 0
       THEN IF s1.allocCount = 0
              THEN FreePages([w EXCEPT !.sa.pool[order + 1] = RemoveAt(@, k)],
                             s1.base, go114CachePages)
              ELSE [w EXCEPT !.sa.pool[order + 1][k] = s1]
     ELSE IF kf # 0
       THEN [w EXCEPT !.sa.poolFull[order + 1] = RemoveAt(@, kf),
                      !.sa.pool[order + 1] = <<s1>> \o @]
     ELSE Panic(w, "failed to find span for stack")

\* Go114.freeToPool.
freeToPool(w, stk) ==
  IF ~Ok(w) THEN w
  ELSE
  LET order == Log2(Diff(stk.lo, stk.hi)) - go114LogMinStackSize
      k == spanOf(w.sa.pool[order + 1], stk)
      kf == spanOf(w.sa.poolFull[order + 1], stk)
      s == IF k # 0 THEN w.sa.pool[order + 1][k] ELSE w.sa.poolFull[order + 1][kf]
      s1 == [s EXCEPT !.list = <<stk>> \o @, !.allocCount = @ - 1]
  IN IF k # 0
       THEN IF s1.allocCount = 0 /\ ~w.sa.gcEnabled
              THEN FreePages([w EXCEPT !.sa.pool[order + 1] = RemoveAt(@, k)],
                             s1.base, go114CachePages)
              ELSE [w EXCEPT !.sa.pool[order + 1][k] = s1]
     ELSE IF kf # 0
       THEN IF s1.allocCount = 0 /\ ~w.sa.gcEnabled
              THEN FreePages([w EXCEPT !.sa.poolFull[order + 1] = RemoveAt(@, kf)],
                             s1.base, go114CachePages)
              ELSE [w EXCEPT !.sa.poolFull[order + 1] = RemoveAt(@, kf),
                             !.sa.pool[order + 1] = <<s1>> \o @]
     ELSE Panic(w, "failed to find span for stack")


\* "cache, ok := g.cache[ctx.P]; if !ok { cache = new(...) }".
stackCacheOf(w, P) ==
  IF P \in DOMAIN w.sa.cache THEN w
  ELSE [w EXCEPT !.sa.cache = Put(@, P, [o \in 1..go114NumOrders |-> ZeroFreeList])]

\* cache[order].push of the stack an allocFromPool call returned.
pushRet(w, P, order) ==
  IF ~Ok(w) THEN w
  ELSE [w EXCEPT !.sa.cache[P][order + 1] = flPush(@, [lo |-> w.ret, hi |-> w.ret2])]

\* "for cache[order].size < go114CacheSize/2 { cache[order].push(...) }".
RECURSIVE stackCacheFill(_, _, _, _)
stackCacheFill(w, P, order, size) ==
  IF ~Ok(w) \/ w.sa.cache[P][order + 1].size >= go114CacheSize \div 2 THEN w
  ELSE stackCacheFill(pushRet(allocFromPool(w, P, size), P, order), P, order, size)

\* "stk = cache[order].pop(); lo, hi = stk.lo, stk.hi".
popCached(w, P, order) ==
  IF ~Ok(w) THEN w
  ELSE IF w.sa.cache[P][order + 1].list = <<>> THEN Panic(w, "nil pointer dereference")
  ELSE [w EXCEPT !.sa.cache[P][order + 1] = flPop(@),
                 !.ret = Head(w.sa.cache[P][order + 1].list).lo,
                 !.ret2 = Head(w.sa.cache[P][order + 1].list).hi]

\* "g.large[order] = fl": an order whose list is empty is left out of the map.
setFreeList(large, order, fl) ==
  IF fl = ZeroFreeList THEN Del(large, order) ELSE Put(large, order, fl)

\* "hi = lo.Add(size)" on the world AllocPages returned.
setHi(w, size) == IF ~Ok(w) THEN w ELSE [w EXCEPT !.ret2 = w.ret + size]

\* The large branch of AllocStack.
allocLargeStack(w, P, size) ==
  LET order == Log2(size) - go114NumOrders - go114LogMinStackSize
      fl == Get(w.sa.large, order, ZeroFreeList)
  IN IF fl.list = <<>>
       THEN setHi(AllocPages(w, P, BytesToPages(size, go114PageSize)), size)
       ELSE [w EXCEPT !.sa.large = setFreeList(@, order, flPop(fl)),
                      !.ret = Head(fl.list).lo, !.ret2 = Head(fl.list).hi]

\* The end of AllocStack: the statistics, and the stack is recorded as live
\* (dup tells apart two live stacks with the same bounds).
stackAllocated(w, size) ==
  IF ~Ok(w) THEN w
  ELSE [TakeFree(w, "StackBytes", size) EXCEPT
          !.live.stacks = @ \cup
             {[lo |-> w.ret, hi |-> w.ret2,
               dup |-> Cardinality({k \in @ : k.lo = w.ret /\ k.hi = w.ret2})]}]

\* Go114.AllocStack: ret and ret2 are lo and hi.
AllocStack(w, P, size) ==
  IF ~Ok(w) THEN w
  ELSE IF ~IsPow2(size) THEN Panic(w, "size must be a power-of-two")
  ELSE IF size < go114MinStackSize THEN Panic(w, "stack too small")
  ELSE IF size < go114CacheSize
    THEN IF P = NoP
           THEN stackAllocated(allocFromPool(w, P, size), size)
           ELSE LET order == Log2(size) - go114LogMinStackSize
                    w1 == stackCacheOf(w, P)
                IN IF w1.sa.cache[P][order + 1].list # <<>>
                     THEN stackAllocated(popCached(w1, P, order), size)
                     ELSE stackAllocated(
                            popCached(stackCacheFill(w1, P, order, size), P, order),
                            size)
    ELSE stackAllocated(allocLargeStack(w, P, size), size)

\* "for cache[order].size > go114CacheSize/2 { g.freeToPool(ctx, cache[order].pop()) }".
RECURSIVE stackCacheDrain(_, _, _)
stackCacheDrain(w, P, order) ==
  IF ~Ok(w) \/ w.sa.cache[P][order + 1].size <= go114CacheSize \div 2 THEN w
  ELSE IF w.sa.cache[P][order + 1].list = <<>> THEN Panic(w, "nil pointer dereference")
  ELSE stackCacheDrain(
         freeToPool([w EXCEPT !.sa.cache[P][order + 1] = flPop(@)],
                    Head(w.sa.cache[P][order + 1].list)), P, order)

\* The end of FreeStack: the statistics, and the stack is no longer live.
stackFreed(w, stk, size) ==
  IF ~Ok(w) THEN w
  ELSE LET ks == {k \in w.live.stacks : k.lo = stk.lo /\ k.hi = stk.hi}
       IN [TakeFree(w, "StackBytes", -size) EXCEPT
             !.live.stacks = IF ks = {} THEN @
                             ELSE @ \ {CHOOSE k \in ks : \A q \in ks : q.dup <= k.dup}]

\* Go114.FreeStack.
FreeStack(w, P, lo, hi) ==
  LET size == Diff(hi, lo)
      stk == [lo |-> lo, hi |-> hi]
  IN
  IF ~Ok(w) THEN w
  ELSE IF ~IsPow2(size) THEN Panic(w, "size must be a power-of-two")
  ELSE IF size < go114MinStackSize THEN Panic(w, "stack too small")
  ELSE IF size < go114CacheSize
    THEN IF P = NoP
           THEN stackFreed(freeToPool(w, stk), stk, size)
           ELSE LET order == Log2(size) - go114LogMinStackSize
                    w1 == stackCacheOf(w, P)
                IN IF w1.sa.cache[P][order + 1].size >= go114CacheSize
                     THEN stackFreed(pushRet(Ret2(stackCacheDrain(w1, P, order), lo, hi),
                                             P, order), stk, size)
                     ELSE stackFreed(pushRet(Ret2(w1, lo, hi), P, order), stk, size)
    ELSE LET order == Log2(size) - go114NumOrders - go114LogMinStackSize
         IN IF w.sa.gcEnabled
              THEN stackFreed([w EXCEPT !.sa.large =
                                 setFreeList(@, order, flPush(Get(@, order, ZeroFreeList), stk))],
                              stk, size)
              ELSE stackFreed(FreePages(w, lo, BytesToPages(Diff(lo, hi), go114PageSize)),
                              stk, size)

\* Stack allocator GCStart.
stackGCStart(w) == IF ~Ok(w) THEN w ELSE [w EXCEPT !.sa.gcEnabled = TRUE]

\* The spans GCEnd removes from the pools, in the order of its loops.
RECURSIVE idleSpanRuns(_, _)
idleSpanRuns(pool, order) ==
  IF order >= go114NumOrders THEN <<>>
  ELSE [k \in 1..Len(SelectSeq(pool[order + 1], LAMBDA s : s.allocCount = 0)) |->
          [addr |-> SelectSeq(pool[order + 1], LAMBDA s : s.allocCount = 0)[k].base,
           n |-> go114CachePages]]
       \o idleSpanRuns(pool, order + 1)

\* The stacks GCEnd pops from the large free lists, in the order of its loops.
RECURSIVE largeRuns(_, _)
largeRuns(large, orders) ==
  IF orders = {} THEN <<>>
  ELSE LET o == CHOOSE x \in orders : \A y \in orders : x <= y
       IN [k \in 1..Len(large[o].list) |->
             [addr |-> large[o].list[k].lo,
              n |-> BytesToPages(Diff(large[o].list[k].lo, large[o].list[k].hi),
                                 go114PageSize)]]
          \o largeRuns(large, orders \ {o})

\* Stack allocator GCEnd.
stackGCEnd(w) ==
  IF ~Ok(w) THEN w
  ELSE FreePagesAll(
         [w EXCEPT !.sa.gcEnabled = FALSE,
                   !.sa.pool = [o \in 1..go114NumOrders |->
                                  SelectSeq(w.sa.pool[o], LAMBDA s : s.allocCount # 0)],
                   !.sa.large = EmptyMap],
         idleSpanRuns(w.sa.pool, 0) \o largeRuns(w.sa.large, DOMAIN w.sa.large))


(***************************************************************************)
(* Object allocators: span lists.  The spans of an object allocator are    *)
(* kept in oa.spans under their base address, which stands for the pointer *)
(* to the span (0 is nil); a span list is the sequence of its spans, first *)
(* to last; oa.central maps a list's key <<span class, "partial" or        *)
(* "full", sweep index>> to the list, when it is not empty; currList is    *)
(* the key of the list that holds the span (<<>> for nil).                 *)
(***************************************************************************)

NilList == <<>>

spanList(w, key) == Get(w.oa.central, key, <<>>)

\* "central[key] = list", kept canonical.
setList(central, key, list) ==
  IF list = <<>> THEN Del(central, key) ELSE Put(central, key, list)

\* go115SpanList.pushFront / immixSpanList.pushFront.
pushFront(w, key, s) ==
  IF ~Ok(w) THEN w
  ELSE IF w.oa.spans[s].currList # NilList
    THEN Panic(w, IF w.oa.kind = "go115" THEN "span already on list"
                                          ELSE "stack span already on list")
  ELSE [w EXCEPT !.oa.central = setList(@, key, <<s>> \o spanList(w, key)),
                 !.oa.spans[s].currList = key]

\* go115SpanList.remove / immixSpanList.remove.
listRemove(w, key, s) ==
  IF ~Ok(w) THEN w
  ELSE IF w.oa.spans[s].currList # key
    THEN Panic(w, "removing stack span from wrong list")
  ELSE [w EXCEPT !.oa.central = setList(@, key, RemoveFromSeq(spanList(w, key), s)),
                 !.oa.spans[s].currList = NilList]

\* list.last of a list that is not empty.
lastOf(w, key) == spanList(w, key)[Len(spanList(w, key))]

\* g.caches[P].alloc[spc] (0 for nil), and its assignment.
cachedSpan(w, slot, P, spc) ==
  IF P \in DOMAIN w.oa.caches THEN Get(w.oa.caches[P][slot], spc, 0) ELSE 0

setCachedSpan(w, slot, P, spc, s) ==
  IF ~Ok(w) THEN w
  ELSE [w EXCEPT !.oa.caches[P][slot] = IF s = 0 THEN Del(@, spc) ELSE Put(@, spc, s)]

ZeroCache == [alloc |-> EmptyMap, overflow |-> EmptyMap]

\* "c, ok := g.caches[ctx.P]; if !ok { c = new(...); g.caches[ctx.P] = c }".
objectCacheOf(w, P) ==
  IF P \in DOMAIN w.oa.caches THEN w
  ELSE [w EXCEPT !.oa.caches = Put(@, P, ZeroCache)]

\* addToIndex / removeFromIndex.
spanPages(s) == {s.base + i * go114PageSize : i \in 0..(s.npages - 1)}

addToIndex(w, s) ==
  [w EXCEPT !.oa.index = [a \in (DOMAIN @) \cup spanPages(w.oa.spans[s]) |->
                            IF a \in spanPages(w.oa.spans[s]) THEN s ELSE @[a]]]

removeFromIndex(w, s) ==
  [w EXCEPT !.oa.index = [a \in (DOMAIN @) \ spanPages(w.oa.spans[s]) |-> @[a]]]

\* The end of AllocObject: ret is the object's address; the object, with its
\* extent and its data size, is recorded as live.
objectAllocated(w, extent, dataSize) ==
  IF ~Ok(w) THEN w
  ELSE [w EXCEPT !.live.objects =
          @ \cup {[lo |-> w.ret, hi |-> w.ret + extent, size |-> dataSize,
                   dup |-> Cardinality({o \in @ : o.lo = w.ret})]}]

\* The start of DeadObject: the object at addr is no longer live.
objectDead(w, addr) ==
  LET os == {o \in w.live.objects : o.lo = addr}
  IN IF os = {} THEN w
     ELSE [w EXCEPT !.live.objects =
             @ \ {CHOOSE o \in os : \A q \in os : q.dup <= o.dup}]

(***************************************************************************)
(* Object allocator Go115 (object/go115.go).  The free and freed bitmaps   *)
(* of a span are the sets of the element indices whose bit is set.         *)
(***************************************************************************)

go115MaxSmallObjectSize == 32768

go115NumSpanClasses == 134

\* The size classes from 20480 bytes up, of the runtime's size-class table.
go115FirstClass == 61

go115SizeClassToSize(sc) ==
  IF sc = 0 THEN 0
  ELSE <<20480, 21760, 24576, 27264, 28672, 32768>>[sc - go115FirstClass + 1]

go115ClassToPages(sc) ==
  IF sc = 0 THEN 0 ELSE <<5, 8, 3, 10, 7, 4>>[sc - go115FirstClass + 1]

\* The least size class that holds size bytes (sizes above 19072).
go115SizeToClass(size) ==
  CHOOSE sc \in go115FirstClass..66 :
     /\ go115SizeClassToSize(sc) >= size
     /\ \A c \in go115FirstClass..(sc - 1) : go115SizeClassToSize(c) < size

makeGo115SpanClass(sc, noscan) == 2 * sc + (IF noscan THEN 1 ELSE 0)

sizeClass(spc) == spc \div 2

go115ObjectWasteStat == "Go115ObjectUnusedBytes"

go115SCWasteStat == "Go115ObjectTailUnusedBytes"

go115TailWasteStat == "Go115TailUnusedBytes"

\* go115Span.allocObject on span s (0 for nil): ret is the address or 0.
allocObject(w, s) ==
  IF ~Ok(w) THEN w
  ELSE IF s = 0 THEN Ret(w, 0)
  ELSE LET sp == w.oa.spans[s]
           is == {i \in sp.free : i < sp.numElems}
           i == CHOOSE x \in is : \A y \in is : x <= y
       IN IF is = {} THEN Ret(w, 0)
          ELSE [w EXCEPT !.oa.spans[s].free = @ \ {i},
                         !.oa.spans[s].allocCount = @ + 1,
                         !.ret = sp.base + i * sp.elemSize]

\* go115Span.sweep.
go115Sweep(w, s) ==
  IF ~Ok(w) THEN w
  ELSE LET sp == w.oa.spans[s]
           w1 == [w EXCEPT !.oa.spans[s] =
                    [sp EXCEPT !.free = @ \cup sp.freed, !.freed = {},
                               !.allocCount = @ - sp.freedCount, !.freedCount = 0,
                               !.scUnused = @ - sp.scFreed,
                               !.objUnused = 0, !.scFreed = 0]]
       IN TakeFree(AddOther(AddOther(AddStat(w1, "Frees", sp.freedCount),
                                     go115SCWasteStat, -sp.scFreed),
                            go115ObjectWasteStat, -sp.objUnused),
                   "UnusedBytes", -(sp.objUnused + sp.scFreed))


(***************************************************************************)
(* Object allocator Immix (object/immix.go): spans.  lineRefCount,         *)
(* lineRefDec and unused map a line index to its value, the lines whose    *)
(* value is zero being left out.                                           *)
(***************************************************************************)

immixLarge == 0

immixTiny == 1

immixSmall == 2

immixMedium == 3

immixTinyMaxSize == 128

immixMaxSmallSize == 32768

immixClassToPages(spc) == <<0, 1, 1, 16>>[spc + 1]

immixClassToLineSize(spc) == <<0, 128, 256, 4096>>[spc + 1]

immixHeaderStat == "ImmixLiveObjectHeaderBytes"

immixLinesStat == "ImmixLinesOccupied"

immixTinyWasteStat == "ImmixTinyObjectUnusedBytes"

immixSmallWasteStat == "ImmixSmallObjectUnusedBytes"

immixMediumWasteStat == "ImmixMediumObjectUnusedBytes"

\* The map without its zero entries.
Sparse(f) == [i \in {j \in DOMAIN f : f[j] # 0} |-> f[i]]

\* "if s.class == immixTiny { AddOther(immixTinyWasteStat, d) } else if ...".
addWaste(w, class, d) ==
  CASE class = immixTiny -> AddOther(w, immixTinyWasteStat, d)
    [] class = immixSmall -> AddOther(w, immixSmallWasteStat, d)
    [] class = immixMedium -> AddOther(w, immixMediumWasteStat, d)
    [] OTHER -> w

\* The alignment immixSpan.alloc picks.
immixAlign(class, size) ==
  CASE class = immixTiny -> IF size >= 8 THEN 8
                            ELSE IF size >= 4 THEN 4
                            ELSE IF size >= 2 THEN 2 ELSE 1
    [] class = immixSmall -> 8
    [] class = immixMedium -> 128

\* The loops "for i := startLine; i <= endLine; i++" that charge the bytes
\* [lo, end) to the lines they lie in: the new unused map and the total.
RECURSIVE chargeLines(_, _, _, _, _, _, _)
chargeLines(unused, lineSize, i, endLine, lo, end, total) ==
  IF i > endLine THEN [unused |-> unused, total |-> total]
  ELSE LET nlo == IF i = endLine THEN end ELSE AlignUp(lo + 1, lineSize)
       IN chargeLines(IF Diff(nlo, lo) # 0
                        THEN Put(unused, i, Get(unused, i, 0) + Diff(nlo, lo))
                        ELSE unused,
                      lineSize, i + 1, endLine, nlo, end, total + Diff(nlo, lo))

\* lineRefCount[i]++ for the lines first..last.
bumpLines(m, first, last) ==
  [i \in (DOMAIN m) \cup (first..last) |->
     Get(m, i, 0) + (IF i \in first..last THEN 1 ELSE 0)]

\* immixAllocStats without the move of the object's bytes out of FreeBytes.
immixAllocStatsKeepFree(w, class, hdr, size, unused) ==
  AddStat(
    AddStat(
      addWaste(
        AddStat(AddStat(AddOther(w, immixHeaderStat, hdr), "FreeBytes", -unused),
                "UnusedBytes", unused),
        class, unused),
      "ObjectBytes", size - hdr),
    "Allocs", 1)

\* The statistics of immixSpan.alloc: unused bytes precede the object's data.
immixAllocStats(w, class, hdr, size, unused) ==
  AddStat(
    AddStat(
      AddStat(
        addWaste(
          AddStat(AddStat(AddOther(w, immixHeaderStat, hdr), "FreeBytes", -unused),
                  "UnusedBytes", unused),
          class, unused),
        "FreeBytes", -(size - hdr)),
      "ObjectBytes", size - hdr),
    "Allocs", 1)

\* immixSpan.alloc on span s (0 for nil): ret is the address or 0.
immixSpanAlloc(w, s, hdr, size) ==
  IF ~Ok(w) THEN w
  ELSE IF s = 0 THEN Ret(w, 0)
  ELSE
  LET sp == w.oa.spans[s]
      lo == AlignUp(sp.bumpLo, immixAlign(sp.class, size))
      unused == Diff(lo + hdr, sp.bumpLo)
      ch == chargeLines(sp.unused, sp.lineSize,
                        Diff(sp.bumpLo, sp.base) \div sp.lineSize,
                        Diff(lo + hdr, sp.base) \div sp.lineSize,
                        sp.bumpLo, lo + hdr, 0)
      startLine == Diff(lo, sp.base) \div sp.lineSize
      endLine == (Diff(lo, sp.base) + size - 1) \div sp.lineSize
      newLines == Cardinality({i \in startLine..endLine : Get(sp.lineRefCount, i, 0) = 0})
  IN IF lo + size > sp.bumpHi THEN Ret(w, 0)
     ELSE IF ch.total # unused THEN Panic(w, "bad accounting")
     ELSE [AddOther(immixAllocStats(w, sp.class, hdr, size, unused),
                    immixLinesStat, newLines)
           EXCEPT !.oa.spans[s].unused = ch.unused,
                  !.oa.spans[s].lineRefCount = bumpLines(@, startLine, endLine),
                  !.oa.spans[s].allocCount = @ + 1,
                  !.oa.spans[s].bumpLo = lo + size,
                  !.ret = lo]

\* oneOrMoreLineRemains answering yes only for a span with no line left
\* beyond its bump region.
oneOrMoreLineRemainsAtSpanEnd(w, s) ==
  /\ s # 0
  /\ Diff(w.oa.spans[s].bumpHi, w.oa.spans[s].bumpLo) < w.oa.spans[s].lineSize
  /\ w.oa.spans[s].lineFreeIdx = w.oa.spans[s].lineCount

\* immixSpan.oneOrMoreLineRemains.
oneOrMoreLineRemains(w, s) ==
  s # 0 /\ Diff(w.oa.spans[s].bumpHi, w.oa.spans[s].bumpLo) >= w.oa.spans[s].lineSize

\* The search of immixSpan.refill for the next run of free lines.
RECURSIVE freeRunFrom(_, _, _, _)
freeRunFrom(sp, i, start, size) ==
  IF i >= sp.lineCount THEN [start |-> start, size |-> size]
  ELSE IF Get(sp.lineRefCount, i, 0) = 0
    THEN freeRunFrom(sp, i + 1, IF start = 0 THEN i ELSE start, size + 1)
  ELSE IF size > 0 THEN [start |-> start, size |-> size]
  ELSE freeRunFrom(sp, i + 1, start, size)

\* The end of immixSpan.refill and immixSpan.sweep: the bump region is set
\* to the run of lines found.
setBump(sp, run) ==
  IF run.size = 0
    THEN [sp EXCEPT !.lineFreeIdx = sp.lineCount, !.bumpLo = 0, !.bumpHi = 0]
    ELSE [sp EXCEPT !.lineFreeIdx = run.start + run.size,
                    !.bumpLo = sp.base + run.start * sp.lineSize,
                    !.bumpHi = sp.base + (run.start + run.size) * sp.lineSize]

\* immixSpan.refill on span s (0 for nil).
immixSpanRefill(w, s) ==
  IF ~Ok(w) \/ s = 0 THEN w
  ELSE
  LET sp == w.oa.spans[s]
      unused == Diff(sp.bumpHi, sp.bumpLo)
      ch == chargeLines(sp.unused, sp.lineSize,
                        Diff(sp.bumpLo, sp.base) \div sp.lineSize,
                        Diff(sp.bumpHi, sp.base) \div sp.lineSize,
                        sp.bumpLo, sp.bumpHi, 0)
      run == freeRunFrom(sp, sp.lineFreeIdx, 0, 0)
  IN IF unused = 0 THEN [w EXCEPT !.oa.spans[s] = setBump(sp, run)]
     ELSE IF ch.total # unused THEN Panic(w, "bad accounting")
     ELSE audit([addWaste(TakeFree(w, "UnusedBytes", unused), sp.class, unused)
                 EXCEPT !.oa.spans[s] = setBump([sp EXCEPT !.unused = ch.unused], run)])

\* The second loop of immixSpan.sweep: the length of the run of free lines
\* that starts at line i.
RECURSIVE freeRunLen(_, _, _)
freeRunLen(rc, lineCount, i) ==
  IF i >= lineCount \/ rc[i] # 0 THEN 0 ELSE 1 + freeRunLen(rc, lineCount, i + 1)

\* immixSpan.sweep.
immixSweep(w, s) ==
  IF ~Ok(w) THEN w
  ELSE
  LET sp == w.oa.spans[s]
      rc == [i \in 0..(sp.lineCount - 1) |->
               (Get(sp.lineRefCount, i, 0) - Get(sp.lineRefDec, i, 0)) % 65536]
      zero == {i \in DOMAIN rc : rc[i] = 0}
      released == SetSum(zero \cap DOMAIN sp.unused, sp.unused)
      emptied == Cardinality({i \in zero : Get(sp.lineRefDec, i, 0) # 0})
      start == IF zero = {} THEN sp.lineCount
               ELSE CHOOSE i \in zero : \A j \in zero : i <= j
      sp1 == [sp EXCEPT !.allocCount = @ - sp.freedCount, !.freedCount = 0,
                        !.lineRefCount = Sparse(rc), !.lineRefDec = EmptyMap,
                        !.unused = [i \in (DOMAIN @) \ zero |-> @[i]]]
  IN audit([addWaste(
              AddOther(TakeFree(AddStat(w, "Frees", sp.freedCount),
                                "UnusedBytes", -released),
                       immixLinesStat, -emptied),
              sp.class, -released)
            EXCEPT !.oa.spans[s] =
                     setBump(sp1, [start |-> start,
                                   size |-> freeRunLen(rc, sp.lineCount, start)])])


(***************************************************************************)
(* Object allocators: the central lists.  Go115 and Immix share the code   *)
(* of refill, GCStart and GCEnd but for the span's sweep, the test for a   *)
(* full span and the making of a fresh span, which are told apart by       *)
(* oa.kind.                                                                *)
(***************************************************************************)

partialKey(spc, idx) == <<spc, "partial", idx>>

fullKey(spc, idx) == <<spc, "full", idx>>

setCached(w, s, cached) ==
  IF ~Ok(w) THEN w ELSE [w EXCEPT !.oa.spans[s].cached = cached]

\* s.sweep(ctx).
sweepSpan(w, s) == IF w.oa.kind = "go115" THEN go115Sweep(w, s) ELSE immixSweep(w, s)

\* refill's "refilling not totally full span" test.
notTotallyFull(w, s) ==
  IF w.oa.kind = "go115"
    THEN w.oa.spans[s].allocCount # w.oa.spans[s].numElems
    ELSE w.oa.spans[s].lineFreeIdx < w.oa.spans[s].lineCount

\* "s.allocCount < s.numElems" / "s.lineFreeIdx < s.lineCount".
hasRoom(w, s) ==
  IF w.oa.kind = "go115"
    THEN w.oa.spans[s].allocCount < w.oa.spans[s].numElems
    ELSE w.oa.spans[s].lineFreeIdx < w.oa.spans[s].lineCount

\* GCEnd's "s.allocCount == s.numElems" / "s.lineFreeIdx == s.lineCount".
isFull(w, s) ==
  IF w.oa.kind = "go115"
    THEN w.oa.spans[s].allocCount = w.oa.spans[s].numElems
    ELSE w.oa.spans[s].lineFreeIdx = w.oa.spans[s].lineCount

\* refill: the span of the cache slot goes to the swept full list.
retire(w, slot, P, spc) ==
  LET s == cachedSpan(w, slot, P, spc)
  IN IF ~Ok(w) \/ s = 0 THEN w
     ELSE IF notTotallyFull(w, s) THEN Panic(w, "refilling not totally full span")
     ELSE pushFront(setCached(w, s, FALSE), fullKey(spc, w.oa.sweptIdx), s)

\* refill: the last span of a partial list becomes the cached span.
takeLast(w, slot, P, spc, key, sweepIt) ==
  IF sweepIt
    THEN listRemove(sweepSpan(setCachedSpan(setCached(w, lastOf(w, key), TRUE),
                                            slot, P, spc, lastOf(w, key)),
                              lastOf(w, key)),
                    key, lastOf(w, key))
    ELSE listRemove(setCachedSpan(setCached(w, lastOf(w, key), TRUE),
                                  slot, P, spc, lastOf(w, key)),
                    key, lastOf(w, key))

\* Go115.refill: the fresh span, on the world AllocPages returned.
go115NewSpan(w, slot, P, spc) ==
  IF ~Ok(w) THEN w
  ELSE
  LET npages == go115ClassToPages(sizeClass(spc))
      elemSize == go115SizeClassToSize(sizeClass(spc))
      numElems == (npages * go114PageSize) \div elemSize
      tailWaste == npages * go114PageSize - elemSize * numElems
      s == w.ret
      w1 == [w EXCEPT !.oa.spans = Put(@, s,
               [base |-> s, npages |-> npages, class |-> spc, elemSize |-> elemSize,
                numElems |-> numElems, allocCount |-> 0, freedCount |-> 0,
                cached |-> TRUE, free |-> 0..(numElems - 1), freed |-> {},
                tailWaste |-> tailWaste, objUnused |-> 0, scUnused |-> 0,
                scFreed |-> 0, currList |-> NilList])]
  IN setCachedSpan(
       addToIndex(AddOther(TakeFree(w1, "UnusedBytes", tailWaste),
                           go115TailWasteStat, tailWaste), s),
       slot, P, spc, s)

\* Immix.refill: the fresh span, on the world AllocPages returned.
immixNewSpan(w, slot, P, spc) ==
  IF ~Ok(w) THEN w
  ELSE
  LET npages == immixClassToPages(spc)
      lineSize == immixClassToLineSize(spc)
      s == w.ret
      sp == [base |-> s, npages |-> npages, class |-> spc, cached |-> FALSE,
             lineFreeIdx |-> (npages * go114PageSize) \div lineSize,
             lineCount |-> (npages * go114PageSize) \div lineSize,
             lineSize |-> lineSize, lineRefCount |-> EmptyMap,
             lineRefDec |-> EmptyMap, bumpLo |-> s,
             bumpHi |-> s + npages * go114PageSize, allocCount |-> 0,
             freedCount |-> 0, unused |-> EmptyMap, currList |-> NilList]
      tiny == [sp EXCEPT !.bumpLo = s + 2 * lineSize,
                         !.lineRefCount = (0 :> 1) @@ (1 :> 1),
                         !.unused = (0 :> lineSize) @@ (1 :> lineSize)]
  IN IF spc = immixTiny
       THEN setCachedSpan(
              addToIndex(
                AddOther(TakeFree([w EXCEPT !.oa.spans = Put(@, s, tiny)],
                                  "UnusedBytes", 2 * lineSize),
                         immixTinyWasteStat, 2 * lineSize), s),
              slot, P, spc, s)
       ELSE setCachedSpan(addToIndex([w EXCEPT !.oa.spans = Put(@, s, sp)], s),
                          slot, P, spc, s)

\* refill from "pageSize := g.pageAllocator.BytesPerPage()" on.
freshSpan(w, slot, P, spc) ==
  IF ~Ok(w) THEN w
  ELSE IF w.oa.kind = "go115"
    THEN IF sizeClass(spc) = 0 THEN Panic(w, "integer divide by zero")
         ELSE go115NewSpan(AllocPages(w, P, go115ClassToPages(sizeClass(spc))),
                           slot, P, spc)
    ELSE IF spc = immixLarge THEN Panic(w, "integer divide by zero")
         ELSE immixNewSpan(AllocPages(w, P, immixClassToPages(spc)), slot, P, spc)

\* refill: one iteration of the loop over the unswept full list, on the world
\* in which its last span s has been swept and removed.
RECURSIVE refillFromFull(_, _, _, _)
fullSwept(w, slot, P, spc, s) ==
  IF ~Ok(w) THEN w
  ELSE IF hasRoom(w, s)
    THEN setCachedSpan(setCached(w, s, TRUE), slot, P, spc, s)
    ELSE refillFromFull(pushFront(w, fullKey(spc, w.oa.sweptIdx), s), slot, P, spc)

\* refill: the loop over the unswept full list, then the fresh span.
refillFromFull(w, slot, P, spc) ==
  IF ~Ok(w) THEN w
  ELSE IF spanList(w, fullKey(spc, 1 - w.oa.sweptIdx)) # <<>>
    THEN fullSwept(
           listRemove(sweepSpan(w, lastOf(w, fullKey(spc, 1 - w.oa.sweptIdx))),
                      fullKey(spc, 1 - w.oa.sweptIdx),
                      lastOf(w, fullKey(spc, 1 - w.oa.sweptIdx))),
           slot, P, spc, lastOf(w, fullKey(spc, 1 - w.oa.sweptIdx)))
    ELSE freshSpan(w, slot, P, spc)

\* refill after the cached span has been retired, an overflow slot served
\* from the central lists like any other.
refillRetiredFromLists(w, slot, P, spc) ==
  IF ~Ok(w) THEN w
  ELSE IF spanList(w, partialKey(spc, w.oa.sweptIdx)) # <<>>
    THEN takeLast(w, slot, P, spc, partialKey(spc, w.oa.sweptIdx), FALSE)
  ELSE IF spanList(w, partialKey(spc, 1 - w.oa.sweptIdx)) # <<>>
    THEN takeLast(w, slot, P, spc, partialKey(spc, 1 - w.oa.sweptIdx), TRUE)
  ELSE refillFromFull(w, slot, P, spc)

\* refill after the cached span has been retired.
refillRetired(w, slot, P, spc) ==
  IF ~Ok(w) THEN w
  ELSE IF slot = "overflow" THEN freshSpan(w, slot, P, spc)
  ELSE IF spanList(w, partialKey(spc, w.oa.sweptIdx)) # <<>>
    THEN takeLast(w, slot, P, spc, partialKey(spc, w.oa.sweptIdx), FALSE)
  ELSE IF spanList(w, partialKey(spc, 1 - w.oa.sweptIdx)) # <<>>
    THEN takeLast(w, slot, P, spc, partialKey(spc, 1 - w.oa.sweptIdx), TRUE)
  ELSE refillFromFull(w, slot, P, spc)

\* Go115.refill (slot "alloc") and Immix.refill (slot "overflow" when its
\* overflow argument is set).
centralRefill(w, slot, P, spc) ==
  audit(refillRetired(retire(w, slot, P, spc), slot, P, spc))

\* GCStart: the loop over one unswept partial list.
RECURSIVE sweepPartial(_, _)
sweepPartial(w, spc) ==
  IF ~Ok(w) \/ spanList(w, partialKey(spc, 1 - w.oa.sweptIdx)) = <<>> THEN w
  ELSE sweepPartial(
         pushFront(
           sweepSpan(listRemove(w, partialKey(spc, 1 - w.oa.sweptIdx),
                                lastOf(w, partialKey(spc, 1 - w.oa.sweptIdx))),
                     lastOf(w, partialKey(spc, 1 - w.oa.sweptIdx))),
           partialKey(spc, w.oa.sweptIdx),
           lastOf(w, partialKey(spc, 1 - w.oa.sweptIdx))),
         spc)

\* GCStart: where a swept span of the full list goes.
resort(w, spc, s) ==
  IF ~Ok(w) THEN w
  ELSE IF hasRoom(w, s) THEN pushFront(w, partialKey(spc, w.oa.sweptIdx), s)
  ELSE pushFront(w, fullKey(spc, w.oa.sweptIdx), s)

\* GCStart: the loop over one unswept full list.
RECURSIVE sweepFull(_, _)
sweepFull(w, spc) ==
  IF ~Ok(w) \/ spanList(w, fullKey(spc, 1 - w.oa.sweptIdx)) = <<>> THEN w
  ELSE sweepFull(
         resort(
           sweepSpan(listRemove(w, fullKey(spc, 1 - w.oa.sweptIdx),
                                lastOf(w, fullKey(spc, 1 - w.oa.sweptIdx))),
                     lastOf(w, fullKey(spc, 1 - w.oa.sweptIdx))),
           spc, lastOf(w, fullKey(spc, 1 - w.oa.sweptIdx))),
         spc)

\* The span classes at or above spc one of whose lists is not empty.
classesFrom(w, spc) == {k[1] : k \in {x \in DOMAIN w.oa.central : x[1] >= spc}}

\* GCStart: "for spci := range g.central", from span class spc on.
RECURSIVE oaGCStartFrom(_, _)
oaGCStartFrom(w, spc) ==
  IF ~Ok(w) \/ classesFrom(w, spc) = {} THEN w
  ELSE LET c == CHOOSE x \in classesFrom(w, spc) : \A y \in classesFrom(w, spc) : x <= y
       IN oaGCStartFrom(sweepFull(sweepPartial(w, c), c), c + 1)

\* Go115.GCStart / Immix.GCStart.
oaGCStart(w) == oaGCStartFrom(w, 0)

\* GCEnd: the flush of one cache slot.
flushSlot(w, slot, P, spc, s) ==
  IF ~Ok(w) THEN w
  ELSE setCachedSpan(
         pushFront(setCached(w, s, FALSE),
                   IF isFull(w, s) THEN fullKey(spc, w.oa.sweptIdx)
                                   ELSE partialKey(spc, w.oa.sweptIdx), s),
         slot, P, spc, 0)

\* GCEnd: "for spc, s := range cache.alloc" (or cache.overflow) for P's cache.
RECURSIVE flushSlots(_, _, _)
flushSlots(w, slot, P) ==
  IF ~Ok(w) \/ DOMAIN w.oa.caches[P][slot] = {} THEN w
  ELSE LET spc == CHOOSE x \in DOMAIN w.oa.caches[P][slot] :
                     \A y \in DOMAIN w.oa.caches[P][slot] : x <= y
       IN flushSlots(flushSlot(w, slot, P, spc, w.oa.caches[P][slot][spc]), slot, P)

\* GCEnd without the flush of the caches.
flushCachesSkipped(w, order) == w

\* GCEnd: "for _, cache := range g.caches", in the order the map yields.
RECURSIVE flushCaches(_, _)
flushCaches(w, order) ==
  IF order = <<>> THEN w
  ELSE flushCaches(flushSlots(flushSlots(w, "alloc", Head(order)),
                              "overflow", Head(order)),
                   Tail(order))

flipSweptIdx(w) ==
  IF ~Ok(w) THEN w ELSE [w EXCEPT !.oa.sweptIdx = IF @ # 0 THEN 0 ELSE 1]

\* Go115.GCEnd / Immix.GCEnd; order is the order in which the caches are met.
oaGCEnd(w, order) == flipSweptIdx(flushCaches(w, order))


(***************************************************************************)
(* Go115.AllocObject and Go115.DeadObject.                                 *)
(***************************************************************************)

\* "x := c.alloc[spc].allocObject()".
allocFromCached(w, P, spc) == allocObject(w, cachedSpan(w, "alloc", P, spc))

\* go115RefillAndAlloc without the second "c.alloc[spc].allocObject()".
go115RefillOnly(w, P, spc) ==
  IF ~Ok(w) \/ w.ret # 0 THEN w
  ELSE centralRefill(w, "alloc", P, spc)

\* "if x == 0 { g.refill(ctx, spc); x = c.alloc[spc].allocObject() }".
go115RefillAndAlloc(w, P, spc) ==
  IF ~Ok(w) \/ w.ret # 0 THEN w
  ELSE allocFromCached(centralRefill(w, "alloc", P, spc), P, spc)

\* go115SmallAllocated with FreeBytes charged the requested size, not the
\* element size.
go115SmallAllocatedBySize(w, P, spc, size) ==
  IF ~Ok(w) THEN w
  ELSE LET s == cachedSpan(w, "alloc", P, spc)
           diff == w.oa.spans[s].elemSize - size
           w1 == [w EXCEPT !.oa.objectSizes = Put(@, w.ret, size),
                           !.oa.spans[s].scUnused = @ + diff]
       IN AddStat(
            AddStat(
              AddStat(AddStat(AddOther(w1, go115SCWasteStat, diff),
                              "FreeBytes", -size),
                      "ObjectBytes", size),
              "UnusedBytes", diff),
            "Allocs", 1)

\* Go115.AllocObject, small objects: the bookkeeping once x (ret) is known.
go115SmallAllocated(w, P, spc, size) ==
  IF ~Ok(w) THEN w
  ELSE LET s == cachedSpan(w, "alloc", P, spc)
           diff == w.oa.spans[s].elemSize - size
           w1 == [w EXCEPT !.oa.objectSizes = Put(@, w.ret, size),
                           !.oa.spans[s].scUnused = @ + diff]
       IN AddStat(
            AddStat(
              AddStat(AddStat(AddOther(w1, go115SCWasteStat, diff),
                              "FreeBytes", -w.oa.spans[s].elemSize),
                      "ObjectBytes", size),
              "UnusedBytes", diff),
            "Allocs", 1)

\* go115LargeAllocated with ObjectBytes charged the whole span and no tail
\* waste.
go115LargeAllocatedWhole(w, spc, size) ==
  IF ~Ok(w) THEN w
  ELSE
  LET npages == BytesToPages(size, go114PageSize)
      s == w.ret
      w1 == [w EXCEPT !.oa.spans = Put(@, s,
               [base |-> s, npages |-> npages, class |-> spc, elemSize |-> size,
                numElems |-> 1, allocCount |-> 1, freedCount |-> 0,
                cached |-> FALSE, free |-> {0}, freed |-> {},
                tailWaste |-> 0, objUnused |-> 0, scUnused |-> 0,
                scFreed |-> 0, currList |-> NilList]),
              !.oa.objectSizes = Put(@, s, npages * go114PageSize)]
  IN AddStat(
       AddStat(
         AddStat(addToIndex(pushFront(w1, fullKey(spc, w.oa.sweptIdx), s), s),
                 "FreeBytes", -(npages * go114PageSize)),
         "ObjectBytes", npages * go114PageSize),
       "Allocs", 1)

\* Go115.AllocObject, large objects, on the world AllocPages returned.
go115LargeAllocated(w, spc, size) ==
  IF ~Ok(w) THEN w
  ELSE
  LET npages == BytesToPages(size, go114PageSize)
      tailWaste == npages * go114PageSize - size
      s == w.ret
      w1 == [w EXCEPT !.oa.spans = Put(@, s,
               [base |-> s, npages |-> npages, class |-> spc, elemSize |-> size,
                numElems |-> 1, allocCount |-> 1, freedCount |-> 0,
                cached |-> FALSE, free |-> {0}, freed |-> {},
                tailWaste |-> tailWaste, objUnused |-> 0, scUnused |-> 0,
                scFreed |-> 0, currList |-> NilList]),
              !.oa.objectSizes = Put(@, s, size)]
  IN AddStat(
       AddOther(
         AddStat(
           AddStat(
             AddStat(addToIndex(pushFront(w1, fullKey(spc, w.oa.sweptIdx), s), s),
                     "FreeBytes", -(npages * go114PageSize)),
             "ObjectBytes", size),
           "UnusedBytes", tailWaste),
         go115TailWasteStat, tailWaste),
       "Allocs", 1)

\* Go115.AllocObject: ret is the address of the object.
go115AllocObject(w, P, size, noscan) ==
  IF ~Ok(w) THEN w
  ELSE IF P = NoP THEN Panic(w, "allocation must be called with a P")
  ELSE IF size <= go115MaxSmallObjectSize
    THEN objectAllocated(
           go115SmallAllocated(
             go115RefillAndAlloc(
               allocFromCached(objectCacheOf(w, P), P,
                               makeGo115SpanClass(go115SizeToClass(size), noscan)),
               P, makeGo115SpanClass(go115SizeToClass(size), noscan)),
             P, makeGo115SpanClass(go115SizeToClass(size), noscan), size),
           size, size)
    ELSE objectAllocated(
           go115LargeAllocated(AllocPages(w, P, BytesToPages(size, go114PageSize)),
                               makeGo115SpanClass(0, noscan), size),
           size, size)

\* Go115.DeadObject: the release of a span all of whose objects are dead, on
\* the world FreePages returned; sp is the span.
go115SpanFreed(w, sp) ==
  IF ~Ok(w) THEN w
  ELSE [AddStat(
          AddOther(
            AddOther(
              AddOther(
                TakeFree(w, "UnusedBytes",
                         -(sp.tailWaste + sp.objUnused + sp.scUnused)),
                go115TailWasteStat, -sp.tailWaste),
              go115SCWasteStat, -sp.scUnused),
            go115ObjectWasteStat, -sp.objUnused),
          "Frees", sp.freedCount)
        EXCEPT !.oa.spans = Del(@, sp.base)]

\* Go115.DeadObject from "if s.freedCount == s.allocCount" on.
go115FreeSpan(w, s) ==
  IF w.oa.spans[s].freedCount # w.oa.spans[s].allocCount THEN w
  ELSE IF w.oa.spans[s].currList = NilList THEN Panic(w, "nil pointer dereference")
  ELSE go115SpanFreed(
         FreePages(listRemove(removeFromIndex(w, s), w.oa.spans[s].currList, s),
                   s, w.oa.spans[s].npages),
         w.oa.spans[s])

\* Go115.DeadObject.
go115DeadObject(w, addr) ==
  IF ~Ok(w) THEN w
  ELSE IF AlignDown(addr, go114PageSize) \notin DOMAIN w.oa.index
    THEN Panic(w, "nil pointer dereference")
  ELSE
  LET s == w.oa.index[AlignDown(addr, go114PageSize)]
      sp == w.oa.spans[s]
      size == Get(w.oa.objectSizes, addr, 0)
  IN IF sp.cached THEN Panic(w, "found cached span at start of sweep")
     ELSE go115FreeSpan(
            AddOther(
              AddStat(
                AddStat(
                  objectDead(
                    [w EXCEPT !.oa.objectSizes = Del(@, addr),
                              !.oa.spans[s].freed =
                                 @ \cup {Diff(sp.base, addr) \div sp.elemSize},
                              !.oa.spans[s].freedCount = @ + 1,
                              !.oa.spans[s].objUnused = @ + size,
                              !.oa.spans[s].scFreed = @ + (sp.elemSize - size)],
                    addr),
                  "ObjectBytes", -size),
                "UnusedBytes", size),
              go115ObjectWasteStat, size),
            s)

(***************************************************************************)
(* Immix.AllocObject and Immix.DeadObject.                                 *)
(***************************************************************************)

\* The header AllocObject puts before size bytes of data.
immixHeaderSize(size, array) ==
  IF size > immixTinyMaxSize THEN (IF array /\ size > 464 THEN 16 ELSE 8) ELSE 0

\* The span class of an object of size bytes, header included.
immixClassOf(size) ==
  IF size <= immixTinyMaxSize THEN immixTiny
  ELSE IF size <= 2048 THEN immixSmall
  ELSE immixMedium

\* "x = c.overflow[spc].alloc(...)" after the overflow span has been refilled.
immixOverflowRetry(w, P, spc, hdr, size) ==
  immixSpanAlloc(w, cachedSpan(w, "overflow", P, spc), hdr, size)

\* The overflow branch of the allocation loop, on the world the first
\* "c.overflow[spc].alloc" returned.
immixOverflowTried(w, P, spc, hdr, size) ==
  IF ~Ok(w) \/ w.ret # 0 THEN w
  ELSE immixOverflowRetry(
         centralRefill(immixSpanRefill(w, cachedSpan(w, "overflow", P, spc)),
                       "overflow", P, spc),
         P, spc, hdr, size)

\* Immix.AllocObject: the loop at "loop:", on the world "s.alloc" returned.
RECURSIVE immixAllocLoop(_, _, _, _, _)
immixAllocTried(w, P, spc, hdr, size) ==
  IF ~Ok(w) \/ w.ret # 0 THEN w
  ELSE IF oneOrMoreLineRemains(w, cachedSpan(w, "alloc", P, spc))
    THEN immixOverflowTried(
           immixSpanAlloc(w, cachedSpan(w, "overflow", P, spc), hdr, size),
           P, spc, hdr, size)
  ELSE IF cachedSpan(w, "alloc", P, spc) # 0
          /\ hasRoom(w, cachedSpan(w, "alloc", P, spc))
    THEN immixAllocLoop(immixSpanRefill(w, cachedSpan(w, "alloc", P, spc)),
                        P, spc, hdr, size)
  ELSE immixAllocLoop(
         centralRefill(immixSpanRefill(w, cachedSpan(w, "alloc", P, spc)),
                       "alloc", P, spc),
         P, spc, hdr, size)

immixAllocLoop(w, P, spc, hdr, size) ==
  IF ~Ok(w) THEN w
  ELSE immixAllocTried(immixSpanAlloc(w, cachedSpan(w, "alloc", P, spc), hdr, size),
                       P, spc, hdr, size)

\* "g.objectSizes[x] = ((dataSize << 2) | 1) | arrayBit".
immixSmallAllocated(w, dataSize, hdr) ==
  IF ~Ok(w) THEN w
  ELSE [w EXCEPT !.oa.objectSizes =
          Put(@, w.ret, dataSize * 4 + 1 + (IF hdr > 8 THEN 2 ELSE 0))]

\* Immix.AllocObject, large objects, on the world AllocPages returned.
immixLargeAllocated(w, size) ==
  IF ~Ok(w) THEN w
  ELSE
  LET npages == BytesToPages(size, go114PageSize)
      tail == npages * go114PageSize - size
      s == w.ret
      w1 == [w EXCEPT !.oa.spans = Put(@, s,
               [base |-> s, npages |-> npages, class |-> immixLarge,
                cached |-> FALSE, lineFreeIdx |-> 1, lineCount |-> 1,
                lineSize |-> size, lineRefCount |-> (0 :> 1),
                lineRefDec |-> EmptyMap, bumpLo |-> 0, bumpHi |-> 0,
                allocCount |-> 1, freedCount |-> 0,
                unused |-> Sparse(0 :> tail), currList |-> NilList]),
              !.oa.objectSizes = Put(@, s, size * 4)]
  IN AddStat(
       AddStat(
         AddStat(
           AddStat(
             addToIndex(pushFront(AddOther(w1, immixLinesStat, 1),
                                  fullKey(immixLarge, w.oa.sweptIdx), s), s),
             "FreeBytes", -(npages * go114PageSize)),
           "ObjectBytes", size),
         "UnusedBytes", tail),
       "Allocs", 1)

\* Immix.AllocObject: ret is the address of the object.
immixAllocObject(w, P, size, array) ==
  IF ~Ok(w) THEN w
  ELSE IF P = NoP THEN Panic(w, "allocation must be called with a P")
  ELSE IF size <= immixMaxSmallSize
    THEN objectAllocated(
           immixSmallAllocated(
             immixAllocLoop(objectCacheOf(w, P), P,
                            immixClassOf(size + immixHeaderSize(size, array)),
                            immixHeaderSize(size, array),
                            size + immixHeaderSize(size, array)),
             size, immixHeaderSize(size, array)),
           size + immixHeaderSize(size, array), size)
    ELSE objectAllocated(
           immixLargeAllocated(AllocPages(w, P, BytesToPages(size, go114PageSize)),
                               size),
           size, size)

\* A header size read back without the array bit.
immixHeaderOfOneBit(sizeVal) ==
  IF sizeVal \div 4 > immixTinyMaxSize /\ sizeVal % 2 # 0 THEN 8 ELSE 0

\* The header size DeadObject reads back from the recorded size value.
immixHeaderOf(sizeVal) ==
  IF sizeVal \div 4 > immixTinyMaxSize
    THEN (IF sizeVal % 2 # 0 THEN 8 ELSE 0) + (IF (sizeVal \div 2) % 2 # 0 THEN 8 ELSE 0)
    ELSE 0

\* DeadObject counting the object on the line it starts in only.
immixMarkDeadFirstLine(w, s, addr, size) ==
  [w EXCEPT !.oa.objectSizes = Del(@, addr),
            !.oa.spans[s].lineRefDec =
               bumpLines(@, Diff(addr, w.oa.spans[s].base) \div w.oa.spans[s].lineSize,
                         Diff(addr, w.oa.spans[s].base) \div w.oa.spans[s].lineSize),
            !.oa.spans[s].freedCount = @ + 1]

\* lineRefDec[i]++ for the lines of the object, and freedCount++.
immixMarkDead(w, s, addr, size) ==
  [w EXCEPT !.oa.objectSizes = Del(@, addr),
            !.oa.spans[s].lineRefDec =
               bumpLines(@, Diff(addr, w.oa.spans[s].base) \div w.oa.spans[s].lineSize,
                         (Diff(addr, w.oa.spans[s].base) + size - 1)
                            \div w.oa.spans[s].lineSize),
            !.oa.spans[s].freedCount = @ + 1]

\* Immix.DeadObject: the data bytes are charged to the lines as unused.
immixChargeDead(w, s, addr, hdr, dataSize) ==
  LET sp == w.oa.spans[s]
      ch == chargeLines(sp.unused, sp.lineSize,
                        Diff(addr + hdr, sp.base) \div sp.lineSize,
                        (Diff(addr + hdr, sp.base) + dataSize - 1) \div sp.lineSize,
                        addr + hdr, addr + hdr + dataSize, 0)
  IN IF ~Ok(w) THEN w
     ELSE IF sp.class = immixLarge
       THEN [w EXCEPT !.oa.spans[s].unused = Sparse(Put(@, 0, Get(@, 0, 0) + dataSize))]
     ELSE IF ch.total # dataSize THEN Panic(w, "bad accounting")
     ELSE [w EXCEPT !.oa.spans[s].unused = ch.unused]

\* The lines DeadObject looks at when it releases a span: all but the two
\* first lines of a tiny span.
countedLines(sp) ==
  {i \in 0..(sp.lineCount - 1) : sp.class # immixTiny \/ i > 1}

\* Immix.DeadObject: the release of a span all of whose objects are dead, on
\* the world FreePages returned; sp is the span.
immixSpanFreed(w, sp) ==
  IF ~Ok(w) THEN w
  ELSE IF \E i \in countedLines(sp) :
            Get(sp.lineRefCount, i, 0) # Get(sp.lineRefDec, i, 0)
    THEN Panic(w, "totally free span doesn't have matching ref count and dec")
  ELSE [AddStat(
          AddOther(
            addWaste(TakeFree(w, "UnusedBytes", -SetSum(DOMAIN sp.unused, sp.unused)),
                     sp.class, -SetSum(DOMAIN sp.unused, sp.unused)),
            immixLinesStat,
            -Cardinality({i \in countedLines(sp) : Get(sp.lineRefCount, i, 0) # 0})),
          "Frees", sp.freedCount)
        EXCEPT !.oa.spans = Del(@, sp.base)]

\* Immix.DeadObject from "if s.freedCount == s.allocCount" on.
immixFreeSpan(w, s) ==
  IF ~Ok(w) \/ w.oa.spans[s].freedCount # w.oa.spans[s].allocCount THEN w
  ELSE IF w.oa.spans[s].currList = NilList THEN Panic(w, "nil pointer dereference")
  ELSE immixSpanFreed(
         FreePages(listRemove(removeFromIndex(w, s), w.oa.spans[s].currList, s),
                   s, w.oa.spans[s].npages),
         w.oa.spans[s])

\* Immix.DeadObject.
immixDeadObject(w, addr) ==
  IF ~Ok(w) THEN w
  ELSE IF AlignDown(addr, go114PageSize) \notin DOMAIN w.oa.index
    THEN Panic(w, "nil pointer dereference")
  ELSE
  LET s == w.oa.index[AlignDown(addr, go114PageSize)]
      sizeVal == Get(w.oa.objectSizes, addr, 0)
      dataSize == sizeVal \div 4
      hdr == immixHeaderOf(sizeVal)
  IN IF w.oa.spans[s].cached THEN Panic(w, "found cached span at start of sweep")
     ELSE immixFreeSpan(
            immixChargeDead(
              AddOther(
                addWaste(
                  AddStat(AddStat(objectDead(immixMarkDead(w, s, addr, dataSize + hdr),
                                             addr),
                                  "ObjectBytes", -dataSize),
                          "UnusedBytes", dataSize),
                  w.oa.spans[s].class, dataSize),
                immixHeaderStat, -hdr),
              s, addr, hdr, dataSize),
            s)


(***************************************************************************)
(* Simulator (simulator.go).  An event is the record the parser returns;   *)
(* order is the order in which GCEnd meets the caches of the object        *)
(* allocator.                                                              *)
(***************************************************************************)

AllocObject(w, P, size, array, noscan) ==
  IF w.oa.kind = "go115" THEN go115AllocObject(w, P, size, noscan)
  ELSE immixAllocObject(w, P, size, array)

DeadObject(w, addr) ==
  IF w.oa.kind = "go115" THEN go115DeadObject(w, addr) ELSE immixDeadObject(w, addr)

\* "s.idToStack[ev.Address] = stack{lo, hi}".
stackRecorded(w, id) ==
  IF ~Ok(w) THEN w
  ELSE [w EXCEPT !.idToStack = Put(@, id, [lo |-> w.ret, hi |-> w.ret2])]

\* "s.idToAddress[ev.Address] = s.oa.AllocObject(...)".
objectRecorded(w, id) ==
  IF ~Ok(w) THEN w ELSE [w EXCEPT !.idToAddress = Put(@, id, w.ret)]

\* "s.oa.GCEnd(ctx); s.sa.GCEnd(ctx); stats.GCCycles++; s.collectEvents = true".
gcEnded(w) ==
  IF ~Ok(w) THEN w ELSE [AddStat(w, "GCCycles", 1) EXCEPT !.collectEvents = TRUE]

\* "addr := s.idToAddress[ev.Address]; delete(...); s.oa.DeadObject(ctx, addr)".
freeEvent(w, ev) ==
  DeadObject([w EXCEPT !.idToAddress = Del(@, ev.Address)],
             Get(w.idToAddress, ev.Address, 0))

\* The switch on ev.Kind at the end of Process.
handleEvent(w, ev, order) ==
  IF ~Ok(w) THEN w
  ELSE CASE ev.Kind = EventStackAlloc ->
              stackRecorded(AllocStack(w, ev.P, ev.Size), ev.Address)
         [] ev.Kind = EventStackFree ->
              FreeStack([w EXCEPT !.idToStack = Del(@, ev.Address)], ev.P,
                        Get(w.idToStack, ev.Address, [lo |-> 0, hi |-> 0]).lo,
                        Get(w.idToStack, ev.Address, [lo |-> 0, hi |-> 0]).hi)
         [] ev.Kind = EventAlloc ->
              objectRecorded(AllocObject(w, ev.P, ev.Size, ev.Array, ev.PointerFree),
                             ev.Address)
         [] ev.Kind = EventFree -> freeEvent(w, ev)
         [] ev.Kind = EventGCStart -> stackGCStart(oaGCStart(w))
         [] ev.Kind = EventGCEnd -> gcEnded(stackGCEnd(oaGCEnd(w, order)))
         [] OTHER -> w

\* The buffer drained from its last event to its first.
RECURSIVE drainReversed(_, _)
drainReversed(w, evs) ==
  IF ~Ok(w) THEN w
  ELSE IF evs = <<>> THEN [w EXCEPT !.gcEvents = <<>>]
  ELSE IF evs[Len(evs)].Kind \in {EventStackAlloc, EventStackFree, EventAlloc}
    THEN drainReversed(handleEvent(w, evs[Len(evs)], <<>>),
                       SubSeq(evs, 1, Len(evs) - 1))
  ELSE Panic(w, "unexpected gc event")

\* The loop "for _, ev := range s.gcEvents" and "s.gcEvents = s.gcEvents[:0]".
RECURSIVE drain(_, _)
drain(w, evs) ==
  IF ~Ok(w) THEN w
  ELSE IF evs = <<>> THEN [w EXCEPT !.gcEvents = <<>>]
  ELSE IF Head(evs).Kind \in {EventStackAlloc, EventStackFree, EventAlloc}
    THEN drain(handleEvent(w, Head(evs), <<>>), Tail(evs))
  ELSE Panic(w, "unexpected gc event")

\* "stats.Timestamp = ev.Timestamp".
setTimestamp(w, ts) == IF ~Ok(w) THEN w ELSE [w EXCEPT !.stats.Timestamp = ts]

\* Process without the event buffer: every event is handled at once.
ProcessEager(w, ev, order) ==
  handleEvent(
    setTimestamp(drain([w EXCEPT !.collectEvents = @ /\ ev.Kind # EventGCStart],
                       w.gcEvents),
                 ev.Timestamp),
    ev, order)

\* Process with the Free events of the post-mark state buffered as well.
ProcessBufferFrees(w, ev, order) ==
  IF w.collectEvents /\ ev.Kind # EventGCStart
    THEN [w EXCEPT !.gcEvents = Append(@, ev)]
  ELSE handleEvent(
         setTimestamp(drain([w EXCEPT !.collectEvents = FALSE], w.gcEvents),
                      ev.Timestamp),
         ev, order)

\* Simulator.Process.
Process(w, ev, order) ==
  IF w.collectEvents /\ ev.Kind = EventFree THEN freeEvent(w, ev)
  ELSE IF w.collectEvents /\ ev.Kind # EventGCStart
    THEN [w EXCEPT !.gcEvents = Append(@, ev)]
  ELSE handleEvent(
         setTimestamp(drain([w EXCEPT !.collectEvents = FALSE], w.gcEvents),
                      ev.Timestamp),
         ev, order)

\* NewStats, RegisterStats, NewAddressSpace48, page.NewGo114, stack.NewGo114,
\* object.NewGo115 / object.NewImmix and NewSimulator (go115Simulator and
\* go115ImmixSimulator of goat-sim).
NewSimulator(kind) ==
  [stats |-> [Timestamp |-> 0, GCCycles |-> 0, Allocs |-> 0, Frees |-> 0,
              ObjectBytes |-> 0, StackBytes |-> 0, UnusedBytes |-> 0,
              FreeBytes |-> 0,
              other |-> IF kind = "go115"
                          THEN [n \in {go115ObjectWasteStat, go115SCWasteStat,
                                       go115TailWasteStat} |-> 0]
                          ELSE [n \in {immixHeaderStat, immixLinesStat,
                                       immixTinyWasteStat, immixSmallWasteStat,
                                       immixMediumWasteStat} |-> 0]],
   asBase |-> as48Base,
   pa |-> [pageCaches |-> EmptyMap, pages |-> ZeroPages],
   sa |-> [cache |-> EmptyMap,
           pool |-> [o \in 1..go114NumOrders |-> <<>>],
           poolFull |-> [o \in 1..go114NumOrders |-> <<>>],
           large |-> EmptyMap, gcEnabled |-> FALSE],
   oa |-> [kind |-> kind, sweptIdx |-> 0, index |-> EmptyMap, caches |-> EmptyMap,
           central |-> EmptyMap, objectSizes |-> EmptyMap, spans |-> EmptyMap],
   collectEvents |-> FALSE, gcEvents |-> <<>>,
   idToAddress |-> EmptyMap, idToStack |-> EmptyMap,
   live |-> [objects |-> {}, stacks |-> {}, mapped |-> 0, balanced |-> TRUE],
   panic |-> "", ret |-> 0, ret2 |-> 0]

(***************************************************************************)
(* State of the parser and of the simulator.                               *)
(***************************************************************************)

VARIABLES
  src,            \* the Source: [header, tail, batches]
  gomaxprocs,     \* runtime.GOMAXPROCS(-1)
  phase,          \* position in NewParser / state of the Parser
  shards,         \* NewParser's shards
  perShardIndex,  \* NewParser's perShardIndex, for the shards scanned so far
  parser,         \* the Parser: [index, batches, totalBatches]
  out,            \* the events Next has returned so far
  perr,           \* the error of the last NewParser / Next call ("" for none)
  run,            \* the simulator's run: [kind, events]
  sim,            \* the simulated world: Stats, allocators and Simulator
  pos,            \* the position in run.events of the last event processed
  lastEv,         \* the last event handed to Simulator.Process
  hist,           \* the positions in run.events of the events processed so far
  vint,           \* a parseVarint call: [pc, u, buf, res]
  mrg,            \* NewParser's merge phase, goroutine by goroutine
  rdr,            \* a batchReader over one batch: [pc, recs, b, err, evs]
  heap            \* the page or object allocator run on its own: [pc, ...]

parserVars == <<src, gomaxprocs, phase, shards, perShardIndex, parser, out, perr>>

simVars == <<run, sim, pos, lastEv, hist>>

auxVars == <<vint, mrg, rdr, heap>>

\* No parseVarint call is looked at.
NoVarint == [pc |-> "off", u |-> {}, buf |-> <<>>, res |-> <<>>]

\* The merge phase is not looked at goroutine by goroutine.
NoMerge == [pc |-> "off"]

\* No batchReader is looked at on its own.
NoReader == [pc |-> "off"]

\* No allocator is looked at on its own.
NoHeap == [pc |-> "off"]

\* The state of the parts looked at on their own, in a run of the parser or
\* of the simulator.
AuxIdle == vint = NoVarint /\ mrg = NoMerge /\ rdr = NoReader /\ heap = NoHeap

\* The state of the simulator in a run of the parser alone.
SimIdle ==
  /\ run = [kind |-> "go115", events |-> <<>>]
  /\ sim = NewSimulator("go115")
  /\ pos = 0
  /\ lastEv = ZeroEvent
  /\ hist = <<>>

NoParser == [index |-> EmptyMap, batches |-> EmptyMap, totalBatches |-> 0]

ParserInit(traces, headers, tails, procs) ==
  /\ src \in [header : headers, tail : tails, batches : traces]
  /\ gomaxprocs \in procs
  /\ phase = "start"
  /\ shards = 0
  /\ perShardIndex = EmptyMap
  /\ parser = NoParser
  /\ out = <<>>
  /\ perr = ""
  /\ SimIdle
  /\ AuxIdle

numBatchesOf(r) == (SrcLen(r) - headerSize) \div batchSize

\* NewParser, up to the shard computation.
NewParserBegin ==
  /\ phase = "start"
  /\ IF SrcLen(src) % batchSize # headerSize
       THEN /\ phase' = "failed"
            /\ perr' = "bad format: file must be a multiple of batchSize bytes"
            /\ UNCHANGED shards
       ELSE IF parseHeader(src) # supportedVersion
              THEN /\ phase' = "failed"
                   /\ perr' = "unsupported version"
                   /\ UNCHANGED shards
              ELSE /\ phase' = "scan"
                   /\ shards' = numShards(gomaxprocs, numBatchesOf(src))
                   /\ UNCHANGED perr
  /\ UNCHANGED <<src, gomaxprocs, perShardIndex, parser, out, simVars, auxVars>>

\* One shard's goroutine of phase 1 (the goroutines are independent; they
\* are taken in shard order), and eg.Wait once all have run.
ScanShard ==
  /\ phase = "scan"
  /\ LET i == Cardinality(DOMAIN perShardIndex)
         res == scanShard(src, shards, numBatchesOf(src), i)
     IN IF res.err # ""
          THEN /\ phase' = "failed"
               /\ perr' = res.err
               /\ UNCHANGED perShardIndex
          ELSE /\ perShardIndex' = Put(perShardIndex, i, res.index)
               /\ phase' = IF i + 1 = shards THEN "merge" ELSE "scan"
               /\ UNCHANGED perr
  /\ UNCHANGED <<src, gomaxprocs, shards, parser, out, simVars, auxVars>>

\* Phase 2 and the construction of the Parser value.
MergeShards ==
  /\ phase = "merge"
  /\ LET index == mergeIndex(perShardIndex, shards)
     IN parser' = [index |-> index,
                   batches |-> [pid \in DOMAIN index |-> ZeroBatchReader],
                   totalBatches |-> (SrcLen(src) - headerSize) \div batchSize]
  /\ phase' = "prime"
  /\ UNCHANGED <<src, gomaxprocs, shards, perShardIndex, out, perr, simVars, auxVars>>

\* The look-ahead initialisation that ends NewParser.
PrimeLookahead ==
  /\ phase = "prime"
  /\ \E res \in {primeFrom(parser, src, 0)} :
        /\ parser' = [res.p EXCEPT !.totalBatches = parser.totalBatches]
        /\ phase' = IF res.err # "" THEN "failed" ELSE "ready"
        /\ perr' = IF res.err # "" THEN "initializing parser: " \o res.err ELSE ""
  /\ UNCHANGED <<src, gomaxprocs, shards, perShardIndex, out, simVars, auxVars>>

\* One call of Parser.Next by the consumer, which stops at the first error.
CallNext ==
  /\ phase \in {"ready", "eof"}
  /\ \E res \in {parserNext(parser, src)} :
        /\ parser' = [res.p EXCEPT !.totalBatches = parser.totalBatches]
        /\ perr' = res.err
        /\ out' = IF res.err = "" THEN Append(out, res.ev) ELSE out
        /\ phase' = CASE res.err = "" -> "ready"
                      [] res.err = "EOF" -> "eof"
                      [] OTHER -> "error"
  /\ UNCHANGED <<src, gomaxprocs, shards, perShardIndex, simVars, auxVars>>

(***************************************************************************)
(* Specifications of the parser.                                           *)
(***************************************************************************)

vars == <<parserVars, simVars, auxVars>>

\* The header of a trace of the supported version.
GoodHeader == <<0, 0, supportedVersion \div 256, supportedVersion % 256>>

\* Headers: the supported version, its two bytes swapped, the version in the
\* first two bytes, and another version.
Headers == {GoodHeader, <<0, 0, 15, 1>>, <<1, 15, 0, 0>>, <<0, 0, 1, 14>>}

\* Lengths: whole batches after the header, a byte less, a byte more, and a
\* multiple of batchSize.
Tails == {0, -1, 1, batchSize - headerSize}

\* The event stream: traces with records, few batches.
InitParser == ParserInit(eventTraces, Headers, Tails, 1..MaxProcs)

NextParser ==
  \/ NewParserBegin
  \/ ScanShard
  \/ MergeShards
  \/ PrimeLookahead
  \/ CallNext

SpecParser == InitParser /\ [][NextParser]_vars

\* Index construction: header-only batches, many batches and shards.
InitIndex == ParserInit(headerTraces, {GoodHeader}, {0}, 1..MaxIndexProcs)

NextIndex ==
  \/ NewParserBegin
  \/ ScanShard
  \/ MergeShards

SpecIndex == InitIndex /\ [][NextIndex]_vars

(***************************************************************************)
(* The simulator run: the events of a scenario are handed to Process in    *)
(* their order, any of them possibly left out.                             *)
(***************************************************************************)

\* An event as the parser returns it.
Ev(kind, P, id, size, array) ==
  [Timestamp |-> 0, Address |-> id, Size |-> size, P |-> P,
   Array |-> array, PointerFree |-> FALSE, Kind |-> kind]

EvAlloc(id, size, P) == Ev(EventAlloc, P, id, size, FALSE)

EvAllocArray(id, size, P) == Ev(EventAlloc, P, id, size, TRUE)

EvFree(id) == Ev(EventFree, NoP, id, 0, FALSE)

EvGCStart == Ev(EventGCStart, NoP, 0, 0, FALSE)

EvGCEnd == Ev(EventGCEnd, NoP, 0, 0, FALSE)

EvStackAlloc(id, size, P) == Ev(EventStackAlloc, P, id, size, FALSE)

EvStackFree(id, P) == Ev(EventStackFree, P, id, 0, FALSE)

\* The events between a GCEnd and the next GCStart, in a cycle of their own.
PostMarkEvents ==
  <<EvAlloc(1, 24576, 0), EvGCStart, EvGCEnd, EvAlloc(2, 21000, 0),
    EvStackAlloc(1, 4096, 0), EvFree(1), EvStackFree(1, 0), EvGCStart,
    EvAlloc(3, 20480, 1), EvGCEnd, EvFree(2), EvGCStart>>

\* Alloc(A), GCEnd, Free(A), Alloc(B), GCStart, Alloc(C).
DrainExampleEvents ==
  <<EvAlloc(1, 20480, 0), EvGCEnd, EvFree(1), EvAlloc(2, 21000, 0), EvGCStart,
    EvAlloc(3, 20480, 1)>>

\* Event sequences whose object sizes lie in the modelled size classes.
ScenariosGo115 ==
  << \* one size class, one P: spans fill, are retired, die and are reused
     <<EvAlloc(1, 20480, 0), EvAlloc(2, 20480, 0), EvAlloc(3, 20480, 0), EvGCEnd,
       EvFree(1), EvFree(2), EvGCStart, EvAlloc(4, 20480, 0), EvGCEnd, EvFree(3),
       EvGCStart, EvAlloc(5, 20480, 1)>>,
     \* one size class, two Ps, partially dead spans
     <<EvAlloc(1, 21000, 0), EvAlloc(2, 21000, 1), EvGCEnd, EvFree(1), EvGCStart,
       EvAlloc(3, 21000, 1), EvAlloc(4, 21000, 0), EvGCEnd, EvFree(2), EvFree(3),
       EvGCStart, EvAlloc(5, 21000, 0)>>,
     \* large objects and stacks on the same pages
     <<EvStackAlloc(1, 2048, NoP), EvAlloc(1, 40000, 0), EvStackAlloc(2, 32768, 0),
       EvAlloc(2, 24576, 0), EvStackFree(1, NoP), EvFree(1), EvStackFree(2, 0),
       EvStackAlloc(3, 8192, 1), EvGCStart, EvGCEnd, EvFree(2),
       EvStackAlloc(4, 32768, 1)>>,
     PostMarkEvents,
     \* stacks: the per-P caches, the pools and the large stacks
     <<EvStackAlloc(1, 8192, 0), EvStackAlloc(2, 8192, 0), EvStackAlloc(3, 8192, NoP),
       EvStackFree(1, 0), EvGCStart, EvStackFree(2, NoP), EvStackAlloc(4, 65536, NoP),
       EvStackFree(4, NoP), EvGCEnd, EvStackFree(3, 0), EvStackAlloc(5, 65536, 1),
       EvStackAlloc(6, 2048, 0)>>,
     DrainExampleEvents >>

\* Event sequences with the small sizes only Immix is modelled for.
ScenariosImmix ==
  << \* tiny objects sharing lines
     <<EvAlloc(1, 100, 0), EvAlloc(2, 100, 0), EvAlloc(3, 24, 0), EvGCEnd, EvFree(1),
       EvFree(2), EvGCStart, EvAlloc(4, 64, 0), EvAlloc(5, 100, 1), EvGCEnd,
       EvFree(3), EvGCStart>>,
     \* medium objects: a swept span with one free line, the overflow span
     <<EvAlloc(1, 5000, 0), EvAlloc(2, 5000, 0), EvGCEnd, EvFree(1), EvGCStart,
       EvAlloc(3, 5000, 0), EvAlloc(4, 3000, 0), EvGCEnd, EvFree(2), EvFree(3),
       EvGCStart, EvAlloc(5, 30000, 0)>>,
     \* small objects: a span refilled from a later run of free lines
     <<EvAlloc(1, 200, 0), EvAlloc(2, 200, 0), EvAlloc(3, 200, 0), EvGCEnd, EvFree(1),
       EvFree(2), EvGCStart, EvAlloc(4, 200, 0), EvAlloc(5, 200, 0),
       EvAllocArray(6, 1000, 0), EvGCEnd, EvFree(3)>>,
     \* large objects and stacks on the same pages
     <<EvStackAlloc(1, 2048, NoP), EvAlloc(1, 40000, 0), EvStackAlloc(2, 32768, 0),
       EvAlloc(2, 5000, 0), EvStackFree(1, NoP), EvFree(1), EvStackFree(2, 0),
       EvStackAlloc(3, 8192, 1), EvGCStart, EvGCEnd, EvFree(2), EvAlloc(3, 100, 0)>>,
     \* events between a GCEnd and the next GCStart
     <<EvAlloc(1, 200, 0), EvGCStart, EvGCEnd, EvAlloc(2, 3000, 0),
       EvStackAlloc(1, 4096, 0), EvFree(1), EvStackFree(1, 0), EvGCStart,
       EvAlloc(3, 100, 1), EvGCEnd, EvFree(2), EvGCStart>> >>

\* The most events of a scenario that are looked at.
MaxSimEvents == 12

\* The runs: an object allocator and an event sequence.
SimRuns ==
  {[kind |-> "go115", events |-> ScenariosGo115[i]] : i \in DOMAIN ScenariosGo115}
  \cup {[kind |-> "immix", events |-> ScenariosGo115[i]] : i \in DOMAIN ScenariosGo115}
  \cup {[kind |-> "immix", events |-> ScenariosImmix[i]] : i \in DOMAIN ScenariosImmix}

\* The orders in which a map with the given keys can be ranged over.
Orders(keys) ==
  {f \in [1..Cardinality(keys) -> keys] : \A i, j \in DOMAIN f : f[i] = f[j] => i = j}

\* The state of the parser in a run of another part, ph, alone.
ParserOff(ph) ==
  /\ src = [header |-> GoodHeader, tail |-> 0, batches |-> <<>>]
  /\ gomaxprocs = 1
  /\ phase = ph
  /\ shards = 0
  /\ perShardIndex = EmptyMap
  /\ parser = NoParser
  /\ out = <<>>
  /\ perr = ""

\* The state of the parser in a run of the simulator alone.
ParserIdle == ParserOff("sim")

InitSim ==
  /\ ParserIdle
  /\ AuxIdle
  /\ run \in SimRuns
  /\ sim = NewSimulator(run.kind)
  /\ pos = 0
  /\ lastEv = ZeroEvent
  /\ hist = <<>>

\* One call of Simulator.Process by goat-sim's loop; a panic ends the run.
ProcessEvent ==
  /\ phase = "sim"
  /\ Ok(sim)
  /\ \E j \in (pos + 1)..Min(Len(run.events), MaxSimEvents) :
       \E order \in IF run.events[j].Kind = EventGCEnd
                      THEN Orders(DOMAIN sim.oa.caches) ELSE {<<>>} :
         \E res \in {Process(sim, [run.events[j] EXCEPT !.Timestamp = j], order)} :
            /\ sim' = IF Ok(res) THEN [res EXCEPT !.ret = 0, !.ret2 = 0]
                      ELSE [sim EXCEPT !.panic = res.panic]
            /\ pos' = j
            /\ lastEv' = [run.events[j] EXCEPT !.Timestamp = j]
            /\ hist' = Append(hist, j)
  /\ UNCHANGED <<run, parserVars, auxVars>>

NextSim == ProcessEvent

SpecSim == InitSim /\ [][NextSim]_vars

(***************************************************************************)
(* Properties of the parser.                                               *)
(***************************************************************************)

ValidKinds ==
  {EventAlloc, EventFree, EventGCStart, EventGCEnd, EventStackAlloc, EventStackFree}

\* C1: the timestamps of the events returned by successive Parser.Next calls
\* are non-decreasing.
C1_TimestampsNonDecreasing ==
  \A i \in 1..(Len(out) - 1) : out[i].Timestamp <= out[i + 1].Timestamp

\* C2: every event Parser.Next returns is the look-ahead event of the
\* processor whose look-ahead timestamp is the least, and of the lowest such
\* processor index when several tie.
C2_NextReturnsLeastLookahead ==
  [][(phase \in {"ready", "eof"} /\ Len(out') = Len(out) + 1)
       => \E pid \in DOMAIN parser.batches :
            /\ out'[Len(out')] = [parser.batches[pid].next EXCEPT !.P = pid - 1]
            /\ \A q \in DOMAIN parser.batches :
                 /\ peek(parser, pid) <= peek(parser, q)
                 /\ peek(parser, q) = peek(parser, pid) => pid <= q]_vars

\* Two processors tied on a timestamp and Next returned the event of the lower
\* processor index first.
C2_TieReturnedLowestFirst ==
  \E i \in 1..(Len(out) - 1) :
     /\ out[i].Timestamp = out[i + 1].Timestamp
     /\ out[i].P = 0 /\ out[i + 1].P = 1
     /\ out[i].Kind \in ValidKinds /\ out[i + 1].Kind \in ValidKinds

\* C3: NewParser indexes every batch of the file exactly once: the merged
\* per-processor index lists hold exactly the N batch positions of the file.
C3_EveryBatchIndexedOnce ==
  phase = "prime" =>
    /\ SeqSum([pid \in 1..Cardinality(DOMAIN parser.index) |->
                 Len(parser.index[pid - 1])]) = numBatchesOf(src)
    /\ UNION {{bo.fileOffset : bo \in SeqToSet(parser.index[pid])} :
                pid \in DOMAIN parser.index}
         = {b * batchSize + headerSize : b \in 0..(numBatchesOf(src) - 1)}

\* C4: every event returned by Parser.Next has a valid Kind.
C4_ReturnedKindValid ==
  \A i \in 1..Len(out) : out[i].Kind \in ValidKinds

(***************************************************************************)
(* Properties of the simulator.                                            *)
(***************************************************************************)

\* The address ranges of the live objects and of the live stacks.
liveRanges(w) ==
  {[what |-> "object", lo |-> o.lo, hi |-> o.hi, dup |-> o.dup] : o \in w.live.objects}
    \cup {[what |-> "stack", lo |-> k.lo, hi |-> k.hi, dup |-> k.dup] : k \in w.live.stacks}

\* C5: at every point of a run of the Simulator, with either object
\* allocator, the address ranges of the objects AllocObject returned and
\* DeadObject has not yet been given, and of the stacks AllocStack returned
\* and FreeStack has not yet been given, are pairwise disjoint.
C5_LiveRangesDisjoint ==
  \A a, b \in liveRanges(sim) : a # b => (a.hi <= b.lo \/ b.hi <= a.lo)

\* Objects and a stack live on the pages of one page allocator, after
\* objects died and a collection ended.
C5_ObjectsAndStacksLive ==
  /\ Ok(sim)
  /\ Cardinality(sim.live.objects) >= 2
  /\ sim.live.stacks # {}
  /\ sim.stats.GCCycles >= 1
  /\ Cardinality(DOMAIN sim.idToAddress) < sim.stats.Allocs

\* C6: with the segregated-fit object allocator, after every processed event
\* ObjectBytes + StackBytes + UnusedBytes + FreeBytes is the number of bytes
\* MapAligned has returned so far.
C6_Go115BytesAddUp ==
  run.kind = "go115" => bytesAccounted(sim) = sim.live.mapped

\* Objects with size-class waste and a stack were allocated and an object was
\* swept or released.
C6_Go115AllCountersMoved ==
  /\ run.kind = "go115" /\ Ok(sim)
  /\ sim.stats.Allocs >= 2 /\ sim.stats.Frees >= 1
  /\ sim.stats.StackBytes > 0 /\ sim.stats.UnusedBytes > 0
  /\ sim.stats.other[go115SCWasteStat] > 0

\* C7: with the segregated-fit object allocator, ObjectBytes is at every
\* point the sum of the requested sizes of the objects allocated and not yet
\* marked dead.
C7_Go115ObjectBytes ==
  run.kind = "go115" =>
    sim.stats.ObjectBytes = SetSum(sim.live.objects, [o \in sim.live.objects |-> o.size])

\* A large object whose size is no multiple of the page size is live, and
\* another object was marked dead.
C7_Go115LargeLiveAfterDeath ==
  /\ run.kind = "go115" /\ Ok(sim)
  /\ \E o \in sim.live.objects :
       o.size > go115MaxSmallObjectSize /\ o.size % go114PageSize # 0
  /\ Cardinality(DOMAIN sim.idToAddress) < sim.stats.Allocs

\* C8: with the Immix object allocator, after every event (AllocObject,
\* DeadObject, GCStart, GCEnd) and after every span refill and span sweep
\* inside one, ObjectBytes + StackBytes + UnusedBytes + FreeBytes is the
\* number of bytes the address space has mapped.
C8_ImmixBytesAddUp ==
  run.kind = "immix" =>
    bytesAccounted(sim) = sim.live.mapped /\ sim.live.balanced

\* Immix allocated objects, swept spans with dead objects and allocated
\* again from the swept spans.
C8_ImmixSweptAndReused ==
  /\ run.kind = "immix" /\ Ok(sim)
  /\ sim.stats.Frees >= 1 /\ sim.stats.GCCycles >= 1
  /\ sim.stats.UnusedBytes > 0
  /\ lastEv.Kind = EventAlloc /\ ~sim.collectEvents

BufferedKinds == {EventAlloc, EventStackAlloc, EventStackFree}

allocsIn(evs) == Len(SelectSeq(evs, LAMBDA e : e.Kind = EventAlloc))

\* C9: in the post-mark state (after a GCEnd, before the next GCStart) the
\* processing of an Alloc, StackAlloc or StackFree event changes no
\* statistic and neither allocator, the event only joins the buffer; the
\* next GCStart applies the buffered events and empties the buffer.
C9_PostMarkEventsDeferred ==
  [][/\ (sim.collectEvents /\ pos' # pos /\ lastEv'.Kind \in BufferedKinds) =>
          /\ sim'.stats = sim.stats
          /\ sim'.oa = sim.oa /\ sim'.sa = sim.sa /\ sim'.pa = sim.pa
          /\ sim'.asBase = sim.asBase /\ sim'.live = sim.live
          /\ sim'.idToAddress = sim.idToAddress /\ sim'.idToStack = sim.idToStack
          /\ sim'.gcEvents = Append(sim.gcEvents, lastEv')
     /\ (pos' # pos /\ lastEv'.Kind = EventGCStart /\ Ok(sim')) =>
          /\ sim'.gcEvents = <<>>
          /\ sim'.stats.Allocs = sim.stats.Allocs + allocsIn(sim.gcEvents)
          /\ \A i \in 1..Len(sim.gcEvents) :
               sim.gcEvents[i].Kind = EventAlloc =>
                 sim.gcEvents[i].Address \in DOMAIN sim'.idToAddress
    ]_vars

\* An Alloc, StackAlloc or StackFree event has just been processed in the
\* post-mark state, after another buffered event.
C9_EventBufferedPostMark ==
  /\ Ok(sim) /\ sim.collectEvents
  /\ Len(sim.gcEvents) >= 2
  /\ lastEv.Kind \in BufferedKinds
  /\ sim.gcEvents[Len(sim.gcEvents)] = lastEv

\* C10: in the post-mark state a Free event is handed to the object
\* allocator's DeadObject within the same Process call, and the event buffer
\* never holds a Free event.
C10_PostMarkFreeApplied ==
  /\ [](\A i \in 1..Len(sim.gcEvents) : sim.gcEvents[i].Kind # EventFree)
  /\ [][(sim.collectEvents /\ pos' # pos /\ lastEv'.Kind = EventFree) =>
          /\ sim'.gcEvents = sim.gcEvents
          /\ sim'.panic =
               DeadObject([sim EXCEPT !.idToAddress = Del(@, lastEv'.Address)],
                          Get(sim.idToAddress, lastEv'.Address, 0)).panic
          /\ Ok(sim') =>
               /\ lastEv'.Address \notin DOMAIN sim'.idToAddress
               /\ sim'.oa =
                    DeadObject([sim EXCEPT !.idToAddress = Del(@, lastEv'.Address)],
                               Get(sim.idToAddress, lastEv'.Address, 0)).oa
               /\ sim'.stats.ObjectBytes < sim.stats.ObjectBytes
               /\ Cardinality(sim'.live.objects) = Cardinality(sim.live.objects) - 1
               /\ \A o \in sim'.live.objects :
                    o.lo # sim.idToAddress[lastEv'.Address]
    ]_vars

\* A Free event has just been processed in the post-mark state while other
\* events wait in the buffer.
C10_FreeAppliedPostMark ==
  /\ Ok(sim) /\ sim.collectEvents
  /\ lastEv.Kind = EventFree
  /\ sim.gcEvents # <<>>

\* The world after the first n events of evs have been handled, one after the
\* other, each by the switch that handles an event outside the post-mark state.
RECURSIVE appliedUpTo(_, _, _)
appliedUpTo(w, evs, n) ==
  IF n = 0 THEN w ELSE handleEvent(appliedUpTo(w, evs, n - 1), evs[n], <<>>)

\* The world a GCStart with timestamp ts leaves when it ends the post-mark
\* state of w: the buffer applied, then gc_start delivered to both allocators.
postMarkEnded(w, ts) ==
  stackGCStart(
    oaGCStart(
      setTimestamp([appliedUpTo([w EXCEPT !.collectEvents = FALSE], w.gcEvents,
                                Len(w.gcEvents))
                      EXCEPT !.gcEvents = <<>>],
                   ts)))

\* The run of the post-mark drain example: Alloc(A), GCEnd, Free(A), Alloc(B),
\* GCStart, Alloc(C), with every event processed up to the n-th.
drainExample(n) ==
  /\ run.events = DrainExampleEvents
  /\ hist = [i \in 1..n |-> i]
  /\ Ok(sim)

C11_DrainStep ==
  /\ (hist' # hist /\ sim.collectEvents /\ lastEv'.Kind = EventGCStart) =>
       IF \E i \in DOMAIN sim.gcEvents : sim.gcEvents[i].Kind \notin BufferedKinds
         THEN ~Ok(sim')
       ELSE IF Ok(postMarkEnded(sim, lastEv'.Timestamp))
         THEN sim' = [postMarkEnded(sim, lastEv'.Timestamp)
                        EXCEPT !.ret = 0, !.ret2 = 0]
       ELSE ~Ok(sim')
  /\ (hist' # hist /\ ~sim.collectEvents /\ Ok(sim')) =>
       /\ sim.gcEvents = <<>> /\ sim'.gcEvents = <<>>
       /\ \E order \in Orders(DOMAIN sim.oa.caches) \cup {<<>>} :
            sim' = [handleEvent(setTimestamp(sim, lastEv'.Timestamp), lastEv', order)
                      EXCEPT !.ret = 0, !.ret2 = 0]

C11_DrainExample ==
  /\ drainExample(3) => DOMAIN sim.idToAddress = {} /\ sim.gcEvents = <<>>
  /\ drainExample(4) =>
       /\ DOMAIN sim.idToAddress = {}
       /\ Len(sim.gcEvents) = 1 /\ sim.gcEvents[1].Address = 2
  /\ drainExample(5) =>
       DOMAIN sim.idToAddress = {2} /\ sim.gcEvents = <<>> /\ ~sim.collectEvents
  /\ drainExample(6) =>
       /\ DOMAIN sim.idToAddress = {2, 3}
       /\ sim.idToAddress[2] # sim.idToAddress[3]
       /\ sim.stats.Allocs = 3 /\ sim.stats.Frees = 1
       /\ sim.gcEvents = <<>>

\* C11: the GCStart that ends the post-mark state applies the buffered events
\* to the allocators in arrival order, each once, before gc_start reaches
\* either allocator, and empties the buffer; events after it are applied
\* directly.  After Alloc(A), GCEnd, Free(A), Alloc(B), GCStart, Alloc(C) the
\* object A is dead and B and C are live.
C11_PostMarkDrainInOrder == []C11_DrainExample /\ [][C11_DrainStep]_vars

\* A GCStart has drained a buffer of three events, and the example has run.
C11_BufferDrained ==
  /\ Ok(sim) /\ lastEv.Kind = EventGCStart /\ pos = 8
  /\ run.events = PostMarkEvents
  /\ hist = <<1, 2, 3, 4, 5, 7, 8>>

C11_ExampleRan == drainExample(6) /\ DOMAIN sim.idToAddress = {2, 3}

\* C12: after every Simulator.Process(ev) call, stats.Timestamp is the
\* timestamp of ev, the most recent event processed by the simulator.
C12_TimestampIsLastEvent ==
  (pos > 0 /\ Ok(sim)) => sim.stats.Timestamp = lastEv.Timestamp

\* The length of the source is 4 + k*32768 for some k >= 0.
lengthWellFormed == \E k \in 0..(Len(src.batches) + 1) : SrcLen(src) = 4 + k * 32768

\* Bytes 2 and 3 of the header are 0x01 and 0x0F.
versionSupported == src.header[3] = 1 /\ src.header[4] = 15

\* C13: NewParser returns an error and no parser for every source whose
\* length is not 4 + k*32768 and for every source whose header version
\* (big-endian bytes 2-3) is not 0x010F.
C13_BadSourceRejected ==
  (phase \notin {"start", "sim"} /\ ~(lengthWellFormed /\ versionSupported)) =>
    /\ phase = "failed"
    /\ perr \in {"bad format: file must be a multiple of batchSize bytes",
                 "unsupported version"}
    /\ (~lengthWellFormed =>
          perr = "bad format: file must be a multiple of batchSize bytes")
    /\ parser = NoParser
    /\ out = <<>>

\* NewParser has rejected a source of a well-formed length whose version
\* bytes are those of the supported version in the opposite order.
C13_SwappedVersionRejected ==
  /\ phase = "failed"
  /\ perr = "unsupported version"
  /\ src.header = <<0, 0, 15, 1>>
  /\ Len(src.batches) = 1

(***************************************************************************)
(* parseVarint over the whole of uint64.  A uint64 is the set of the       *)
(* positions of its one bits, so that a shift loses the bits it moves past *)
(* bit 63.                                                                 *)
(***************************************************************************)

\* The width of "result := uint64(0)".
Uint64Bits == 64

\* The bits of a byte, and the byte with the given bits.
bitsOfByte(b) == {k \in 0..7 : (b \div Pow2(k)) % 2 = 1}

byteOfBits(s) == SeqSum([k \in 1..8 |-> IF (k - 1) \in s THEN Pow2(k - 1) ELSE 0])

\* "uint64(buf[i]&0x7f) << shift".
shl64(s, shift) == {k + shift : k \in s} \cap (0..(Uint64Bits - 1))

\* The loop left one byte early.
varintTooLongAt63(shift) == shift >= Uint64Bits - 1

\* "if shift >= 64", after "shift += 7".
varintTooLong(shift) == shift >= Uint64Bits

RECURSIVE parseVarint64Loop(_, _, _, _)
parseVarint64Loop(buf, i, shift, result) ==
  IF i >= Len(buf)
    THEN [n |-> 0, val |-> {}, err |-> "not enough bytes left to decode varint"]
  ELSE IF buf[i + 1] < 128
    THEN [n |-> i + 1,
          val |-> result \cup shl64(bitsOfByte(buf[i + 1] % 128), shift),
          err |-> ""]
  ELSE IF varintTooLong(shift + 7)
    THEN [n |-> 0, val |-> {}, err |-> "varint too long"]
  ELSE parseVarint64Loop(buf, i + 1, shift + 7,
                         result \cup shl64(bitsOfByte(buf[i + 1] % 128), shift))

\* parseVarint(buf).
parseVarint64(buf) == parseVarint64Loop(buf, 0, 0, {})

\* The little-endian 7-bit-group encoding of u: the low group first, the high
\* bit of a byte set when a group follows.
RECURSIVE encodeVarint64(_)
encodeVarint64(u) ==
  IF u \subseteq 0..6 THEN <<byteOfBits(u)>>
  ELSE <<128 + byteOfBits(u \cap (0..6))>>
         \o encodeVarint64({k - 7 : k \in {b \in u : b >= 7}})

\* The values encoded: one bit, the low bits up to one, bit 0 or bit 63 with
\* another bit, and the bits of a byte moved to every position.
Uint64Inputs ==
  {{}} \cup {{b} : b \in 0..(Uint64Bits - 1)}
       \cup {0..b : b \in 0..(Uint64Bits - 1)}
       \cup {{0, b} : b \in 0..(Uint64Bits - 1)}
       \cup {{b, Uint64Bits - 1} : b \in 0..(Uint64Bits - 1)}
       \cup {shl64({0, 2, 3, 5, 7}, b) : b \in 0..(Uint64Bits - 1)}

\* Byte sequences decoded as they are: 8 to 12 bytes with the high bit set,
\* then one without.
RawEncodings ==
  {[i \in 1..n |-> c] \o <<t>> : n \in 8..12, c \in {128, 129, 255}, t \in {0, 1, 2, 127}}

InitVarint ==
  /\ ParserOff("varint")
  /\ SimIdle
  /\ mrg = NoMerge /\ rdr = NoReader /\ heap = NoHeap
  /\ \/ vint \in [pc : {"encode"}, u : Uint64Inputs, buf : {<<>>}, res : {<<>>}]
     \/ vint \in [pc : {"raw"}, u : {{}}, buf : RawEncodings, res : {<<>>}]

\* The value is encoded.
VarintEncode ==
  /\ vint.pc = "encode"
  /\ vint' = [vint EXCEPT !.pc = "decode", !.buf = encodeVarint64(vint.u)]
  /\ UNCHANGED <<parserVars, simVars, mrg, rdr, heap>>

\* parseVarint(buf).
VarintDecode ==
  /\ vint.pc \in {"decode", "raw"}
  /\ vint' = [vint EXCEPT !.pc = IF vint.pc = "decode" THEN "done" ELSE "doneRaw",
                          !.res = parseVarint64(vint.buf)]
  /\ UNCHANGED <<parserVars, simVars, mrg, rdr, heap>>

NextVarint == VarintEncode \/ VarintDecode

SpecVarint == InitVarint /\ [][NextVarint]_vars

\* The number whose one bits are those of u.
valueOf(u) == SeqSum([k \in 1..Uint64Bits |-> IF (k - 1) \in u THEN Pow2(k - 1) ELSE 0])

\* C14: for every 64-bit unsigned u, decoding the little-endian 7-bit-group
\* encoding of u returns the encoding's length and u; an encoding longer than
\* 10 bytes is rejected with an error.
C14_VarintRoundTrip ==
  /\ vint.pc \in {"decode", "done"} => Len(vint.buf) \in 1..10
  /\ vint.pc = "done" =>
       /\ vint.res = [n |-> Len(vint.buf), val |-> vint.u, err |-> ""]
       /\ vint.u \subseteq 0..30 =>
            parseVarint(vint.buf, 0, Len(vint.buf))
              = [n |-> Len(vint.buf), val |-> valueOf(vint.u), err |-> ""]
  /\ (vint.pc = "doneRaw" /\ Len(vint.buf) > 10) =>
       vint.res = [n |-> 0, val |-> {}, err |-> "varint too long"]

\* A value with bit 63 set has gone through its ten-byte encoding.
C14_TenByteValueDecoded ==
  /\ vint.pc = "done"
  /\ (Uint64Bits - 1) \in vint.u
  /\ 0 \in vint.u
  /\ Len(vint.buf) = 10
  /\ vint.res.val = vint.u

(***************************************************************************)
(* Parser.Progress.  A float64 quotient is kept as its numerator and       *)
(* denominator; 0/0 is NaN and x/0 is +Inf.                                *)
(***************************************************************************)

\* "left += uint64(len(perPBatches))" over p.index.
batchesLeft(p) ==
  SetSum(DOMAIN p.index, [pid \in DOMAIN p.index |-> Len(p.index[pid])])

\* "float64(p.totalBatches-left) / float64(p.totalBatches)".
floatQuotient(num, den) ==
  IF den # 0 THEN [num |-> num, den |-> den]
  ELSE IF num = 0 THEN "NaN" ELSE "+Inf"

Progress(p) == floatQuotient(p.totalBatches - batchesLeft(p), p.totalBatches)

\* The float64 value is 1.0.
isOne(q) == q \notin {"NaN", "+Inf"} /\ q.num = q.den

\* The source is the 4-byte header of the supported version and nothing else,
\* and NewParser has returned.
emptyTraceOpened ==
  /\ src.header = GoodHeader /\ src.tail = 0 /\ src.batches = <<>>
  /\ phase \in {"failed", "ready", "eof", "error"}

\* For the header-only trace NewParser succeeds and the first Next returns
\* end-of-stream.
emptyTraceEndsAtOnce ==
  emptyTraceOpened =>
    /\ phase \in {"ready", "eof"}
    /\ out = <<>>
    /\ perr = IF phase = "eof" THEN "EOF" ELSE ""
    /\ parserNext(parser, src).err = "EOF"

\* C15: for a trace consisting of the 4-byte header only, NewParser succeeds,
\* Next returns end-of-stream on its first call, and Progress returns 1.0.
C15_EmptyTraceProgressOne ==
  /\ emptyTraceEndsAtOnce
  /\ emptyTraceOpened => isOne(Progress(parser))

(***************************************************************************)
(* One-batch traces over the lengths of the start ticks' varint.           *)
(***************************************************************************)

\* Start ticks at the ends of the one- to five-byte varints.
HeaderTicks ==
  {0, 1, 127, 128, 16383, 16384, 2097151, 2097152, 268435455, 268435456,
   1073741824}

\* Processor ids of one varint byte.
HeaderPids == {1, 20}

headerSizeTraces ==
  {<<encodeBatch(q, t, Bodies[b].bytes)>> :
     q \in HeaderPids, t \in HeaderTicks, b \in 1..Len(Bodies)}

InitHeader == ParserInit(headerSizeTraces, {GoodHeader}, {0}, {1})

SpecHeader == InitHeader /\ [][NextParser]_vars

\* The bytes BatchStart(pid) Sync(ticks) take at the start of a batch.
headerBytes(batch) ==
  2 + Len(encodeVarint(parseBatchHeader(batch).pid))
    + Len(encodeVarint(parseBatchHeader(batch).ticks))

\* The batches of the source have been indexed.
batchesIndexed == phase \in {"prime", "failed", "ready", "eof", "error"}

\* The header of every indexed batch with start ticks of at least least has
\* the size refill skips, and NewParser accepts the trace.
headerSkipped(least) ==
  batchesIndexed =>
    \A i \in DOMAIN src.batches :
      (/\ parseBatchHeader(src.batches[i]).pid < 128
       /\ parseBatchHeader(src.batches[i]).ticks >= least) =>
        /\ boHeaderSize([startTicks |-> parseBatchHeader(src.batches[i]).ticks,
                         fileOffset |-> 0])
             = headerBytes(src.batches[i])
        /\ (Len(src.batches) = 1 => phase # "failed")

\* The claim for the start ticks other than 0.
headerSkippedNonZero == headerSkipped(1)

\* C16: the batch header occupies exactly 3 + ceil(bitlen(start_ticks)/7)
\* bytes, so that after a refill the read cursor stands on the first record
\* following BatchStart(pid) Sync(start_ticks), for every start_ticks and
\* every processor id of one varint byte.
C16_HeaderSizeSkipsHeader == headerSkipped(0)

(***************************************************************************)
(* The merged index.                                                       *)
(***************************************************************************)

\* The list of processor pid in the index of shard i, empty if the shard's
\* index is shorter.
shardList(i, pid) == Get(perShardIndex[i], pid, <<>>)

\* The shard whose list of pid holds the entry bo.
shardOfEntry(pid, bo) ==
  CHOOSE i \in 0..(shards - 1) : bo \in SeqToSet(shardList(i, pid))

\* C17: after NewParser's merge phase, for every processor id the list
\* index[pid] is sorted by non-decreasing start ticks and contains exactly the
\* entries of all per-shard lists of that processor, each once; entries of
\* equal start ticks are ordered by shard index.
C17_MergedIndexSortedComplete ==
  phase = "prime" =>
    \A pid \in DOMAIN parser.index :
      /\ \A k \in 1..(Len(parser.index[pid]) - 1) :
           parser.index[pid][k].startTicks <= parser.index[pid][k + 1].startTicks
      /\ SeqToSet(parser.index[pid])
           = UNION {SeqToSet(shardList(i, pid)) : i \in 0..(shards - 1)}
      /\ Len(parser.index[pid])
           = SeqSum([j \in 1..shards |-> Len(shardList(j - 1, pid))])
      /\ \A k, l \in 1..Len(parser.index[pid]) :
           (k < l /\ parser.index[pid][k].startTicks = parser.index[pid][l].startTicks)
             => shardOfEntry(pid, parser.index[pid][k])
                  <= shardOfEntry(pid, parser.index[pid][l])

\* A merged list holds entries of equal start ticks from two shards, and an
\* entry of a later shard before an entry of an earlier one.
C17_MergedTieAcrossShards ==
  /\ phase = "prime"
  /\ \E pid \in DOMAIN parser.index :
       \E k, l \in 1..Len(parser.index[pid]) :
         /\ k < l
         /\ parser.index[pid][k].startTicks = parser.index[pid][l].startTicks
         /\ shardOfEntry(pid, parser.index[pid][k])
              < shardOfEntry(pid, parser.index[pid][l])
         /\ \E n \in 1..(k - 1) :
              shardOfEntry(pid, parser.index[pid][n])
                > shardOfEntry(pid, parser.index[pid][k])

(***************************************************************************)
(* NewParser's merge phase, goroutine by goroutine: the main goroutine     *)
(* (wg.Add, the send on pidChan, wg.Wait, close) and one worker per shard  *)
(* (the receive, one iteration of the merge loop, wg.Done).                *)
(***************************************************************************)

\* Bounds of the traces merged goroutine by goroutine.
MaxMergeBatches == 3

MaxMergeProcs == 3

MergePids == {1, 2, 3}

RECURSIVE mergeDescs(_)
mergeDescs(n) ==
  IF n = 0 THEN {<<>>}
  ELSE {Append(d, [pid |-> q, ticks |-> t]) :
          d \in mergeDescs(n - 1), q \in MergePids, t \in TraceTicks}

mergeTraces ==
  {[i \in 1..Len(d) |-> encodeBatch(d[i].pid, d[i].ticks, <<>>)] :
     d \in UNION {mergeDescs(n) : n \in 0..MaxMergeBatches}}

InitMerge == ParserInit(mergeTraces, {GoodHeader}, {0}, 1..MaxMergeProcs)

\* maxP, perPidBatches, "index := make(...)", "pidChan := make(chan int,
\* shards)", and the start of the workers.
MergeStart ==
  /\ phase = "merge"
  /\ phase' = "merging"
  /\ mrg' = [pc |-> "loop", next |-> 0, cur |-> 0,
             chan |-> <<>>, closed |-> FALSE, wg |-> 0,
             heads |-> perShardIndex,
             index |-> [pid \in 0..(maxPOf(perShardIndex) - 1) |-> <<>>],
             want |-> [pid \in 0..(maxPOf(perShardIndex) - 1) |->
                         perPidBatches(perShardIndex, pid, shards)],
             w |-> [i \in 0..(shards - 1) |-> [pc |-> "recv", pid |-> -1]],
             recv |-> [pid \in 0..(maxPOf(perShardIndex) - 1) |-> {}]]
  /\ UNCHANGED <<src, gomaxprocs, shards, perShardIndex, parser, out, perr,
                 simVars, vint, rdr, heap>>

\* The pids from next on that have a batch.
pidsToSend(g) == {pid \in DOMAIN g.want : pid >= g.next /\ g.want[pid] # 0}

\* "for pid := range index { if perPidBatches[pid] != 0 { wg.Add(1)".
MainAdd ==
  /\ phase = "merging" /\ mrg.pc = "loop"
  /\ pidsToSend(mrg) # {}
  /\ mrg' = [mrg EXCEPT !.pc = "send", !.cur = MinOf(pidsToSend(mrg)),
                        !.wg = @ + 1]
  /\ UNCHANGED <<parserVars, simVars, vint, rdr, heap>>

\* "pidChan <- pid": blocks while the buffer holds shards pids.
MainSend ==
  /\ phase = "merging" /\ mrg.pc = "send"
  /\ Len(mrg.chan) < shards
  /\ mrg' = [mrg EXCEPT !.pc = "loop", !.next = mrg.cur + 1,
                        !.chan = Append(@, mrg.cur)]
  /\ UNCHANGED <<parserVars, simVars, vint, rdr, heap>>

\* The end of the loop over index.
MainLoopEnd ==
  /\ phase = "merging" /\ mrg.pc = "loop"
  /\ pidsToSend(mrg) = {}
  /\ mrg' = [mrg EXCEPT !.pc = "wait"]
  /\ UNCHANGED <<parserVars, simVars, vint, rdr, heap>>

\* wg.Wait returning at once.
waitReturnsAlways(counter) == TRUE

\* wg.Wait returns when the counter is zero.
waitReturns(counter) == counter = 0

\* "wg.Wait()".
MainWait ==
  /\ phase = "merging" /\ mrg.pc = "wait"
  /\ waitReturns(mrg.wg)
  /\ mrg' = [mrg EXCEPT !.pc = "close"]
  /\ UNCHANGED <<parserVars, simVars, vint, rdr, heap>>

\* "close(pidChan)".
MainClose ==
  /\ phase = "merging" /\ mrg.pc = "close"
  /\ mrg' = [mrg EXCEPT !.pc = "read", !.closed = TRUE]
  /\ UNCHANGED <<parserVars, simVars, vint, rdr, heap>>

\* The construction of the Parser value from the merged index.
MainRead ==
  /\ phase = "merging" /\ mrg.pc = "read"
  /\ mrg' = [mrg EXCEPT !.pc = "done"]
  /\ parser' = [index |-> mrg.index,
                batches |-> [pid \in DOMAIN mrg.index |-> ZeroBatchReader],
                totalBatches |-> (SrcLen(src) - headerSize) \div batchSize]
  /\ phase' = "prime"
  /\ UNCHANGED <<src, gomaxprocs, shards, perShardIndex, out, perr, simVars, vint, rdr, heap>>

\* "pid, ok := <-pidChan" with ok true.
WorkerRecv(i) ==
  /\ phase \in {"merging", "prime"} /\ mrg.w[i].pc = "recv"
  /\ mrg.chan # <<>>
  /\ mrg' = [mrg EXCEPT !.chan = Tail(@),
                        !.w[i] = [pc |-> "merge", pid |-> Head(mrg.chan)],
                        !.recv[Head(mrg.chan)] = @ \cup {i}]
  /\ UNCHANGED <<parserVars, simVars, vint, rdr, heap>>

\* "pid, ok := <-pidChan" with ok false: the worker returns.
WorkerExit(i) ==
  /\ phase \in {"merging", "prime"} /\ mrg.w[i].pc = "recv"
  /\ mrg.chan = <<>> /\ mrg.closed
  /\ mrg' = [mrg EXCEPT !.w[i].pc = "exit"]
  /\ UNCHANGED <<parserVars, simVars, vint, rdr, heap>>

\* One iteration of "for len(index[pid]) < perPidBatches[pid]".
WorkerMergeStep(i) ==
  /\ phase \in {"merging", "prime"} /\ mrg.w[i].pc = "merge"
  /\ Len(mrg.index[mrg.w[i].pid]) < mrg.want[mrg.w[i].pid]
  /\ \E m \in {minShardFrom(mrg.heads, mrg.w[i].pid, 0, shards, MaxUint64, -1)} :
       mrg' = [mrg EXCEPT !.heads[m][mrg.w[i].pid] = Tail(@),
                          !.index[mrg.w[i].pid] =
                             Append(@, mrg.heads[m][mrg.w[i].pid][1])]
  /\ UNCHANGED <<parserVars, simVars, vint, rdr, heap>>

\* The end of the merge loop and "wg.Done()".
WorkerDone(i) ==
  /\ phase \in {"merging", "prime"} /\ mrg.w[i].pc = "merge"
  /\ Len(mrg.index[mrg.w[i].pid]) >= mrg.want[mrg.w[i].pid]
  /\ mrg' = [mrg EXCEPT !.wg = @ - 1, !.w[i] = [pc |-> "recv", pid |-> -1]]
  /\ UNCHANGED <<parserVars, simVars, vint, rdr, heap>>

NextMerge ==
  \/ NewParserBegin
  \/ ScanShard
  \/ MergeStart
  \/ MainAdd
  \/ MainSend
  \/ MainLoopEnd
  \/ MainWait
  \/ MainClose
  \/ MainRead
  \/ \E i \in 0..(MaxMergeProcs) :
       /\ i < shards
       /\ \/ WorkerRecv(i)
          \/ WorkerExit(i)
          \/ WorkerMergeStep(i)
          \/ WorkerDone(i)

SpecMerge == InitMerge /\ [][NextMerge]_vars

\* The merge phase runs goroutine by goroutine.
merging == mrg.pc # "off"

\* The workers of the merge phase.
mergeWorkers == IF merging THEN DOMAIN mrg.w ELSE {}

\* Every processor id is handed to at most one worker, and only if it has a
\* batch; no two workers merge the lists of the same processor id.
oneWorkerPerPid ==
  /\ \A pid \in DOMAIN mrg.recv :
       /\ Cardinality(mrg.recv[pid]) <= 1
       /\ mrg.recv[pid] # {} => mrg.want[pid] # 0
  /\ \A i, j \in mergeWorkers :
       (i # j /\ mrg.w[i].pc = "merge" /\ mrg.w[j].pc = "merge")
         => mrg.w[i].pid # mrg.w[j].pid
  /\ \A i \in mergeWorkers : mrg.w[i].pc = "merge" => mrg.recv[mrg.w[i].pid] = {i}

\* Once wg.Wait has returned no worker is merging or holds a pid, every pid
\* with a batch was handed to exactly one worker, and the index is the one
\* the merge of the per-shard lists gives.
mergedBeforeRead ==
  mrg.pc \in {"close", "read", "done"} =>
    /\ \A i \in mergeWorkers : mrg.w[i].pc \in {"recv", "exit"}
    /\ mrg.chan = <<>>
    /\ \A pid \in DOMAIN mrg.want :
         /\ Cardinality(mrg.recv[pid]) = (IF mrg.want[pid] # 0 THEN 1 ELSE 0)
         /\ Len(mrg.index[pid]) = mrg.want[pid]
    /\ mrg.index = mergeIndex(perShardIndex, shards)
    /\ mrg.pc = "done" => parser.index = mrg.index

\* The WaitGroup counter never falls below zero and pidChan never holds more
\* than its capacity.
mergeCountersInRange ==
  merging => mrg.wg >= 0 /\ Len(mrg.chan) <= shards

mergeSafe ==
  merging => oneWorkerPerPid /\ mergedBeforeRead /\ mergeCountersInRange

\* The merge phase has ended: NewParser holds the index and every worker has
\* returned.
mergeEnded ==
  phase = "prime" /\ mrg.pc = "done" /\ \A i \in mergeWorkers : mrg.w[i].pc = "exit"

\* The steps the goroutines of state g have left: those of the main
\* goroutine, those for the pids no worker has received yet, those of the
\* merges under way, and the return of every worker.
mergeStepsLeft(g) ==
  (CASE g.pc = "loop" -> 2 * Cardinality(pidsToSend(g)) + 4
     [] g.pc = "send" -> 2 * Cardinality(pidsToSend(g)) + 3
     [] g.pc = "wait" -> 3
     [] g.pc = "close" -> 2
     [] g.pc = "read" -> 1
     [] OTHER -> 0)
  + SetSum(DOMAIN g.want,
           [pid \in DOMAIN g.want |->
              IF g.want[pid] # 0 /\ g.recv[pid] = {} THEN g.want[pid] + 2 ELSE 0])
  + SetSum(DOMAIN g.w,
           [i \in DOMAIN g.w |->
              CASE g.w[i].pc = "merge" ->
                     g.want[g.w[i].pid] - Len(g.index[g.w[i].pid]) + 2
                [] g.w[i].pc = "recv" -> 1
                [] OTHER -> 0])

\* Until the phase has ended some goroutine can take a step.
mergeNotStuck == (merging /\ ~mergeEnded) => ENABLED NextMerge

\* Every step of a goroutine takes one from the steps left.
mergeStepCounts ==
  (merging /\ mrg' # mrg) =>
     /\ mergeStepsLeft(mrg') = mergeStepsLeft(mrg) - 1
     /\ mergeStepsLeft(mrg') >= 0

\* C18: in NewParser's merge phase each processor id with a batch is handed
\* to exactly one worker, no two workers read or write the same per-processor
\* list, NewParser reads the merged index only after every merge has
\* completed, and the phase ends without deadlock for the modelled numbers of
\* shards and processors: some goroutine can step until the phase has ended,
\* and every step takes one from a finite number of steps left.
C18_MergeWorkersDisjointAndDone ==
  []mergeSafe /\ []mergeNotStuck /\ [][mergeStepCounts]_vars

\* Two workers merge the lists of two processor ids at the same time while
\* the main goroutine is blocked sending a third.
C18_TwoWorkersMerging ==
  /\ merging /\ mrg.pc = "send"
  /\ \E i, j \in mergeWorkers :
       /\ i # j
       /\ mrg.w[i].pc = "merge" /\ mrg.w[j].pc = "merge"
       /\ Len(mrg.index[mrg.w[i].pid]) > 0

(***************************************************************************)
(* The events of a batch.                                                  *)
(***************************************************************************)

\* The processor whose look-ahead the next call of Next returns, and the
\* batch that look-ahead was read from.
returningPid == selectPid(parser)

returningBatch == parser.batches[returningPid].batchBuf

\* A call of Next has returned an event of kind in kinds: its timestamp is not
\* below the start ticks of the batch it was read from and is below the start
\* ticks of the processor's next batch.
eventWithinBatch(kinds) ==
  (phase = "ready" /\ Len(out') = Len(out) + 1 /\ out'[Len(out')].Kind \in kinds) =>
     /\ out'[Len(out')].P = returningPid - 1
     /\ parseBatchHeader(returningBatch).ticks <= out'[Len(out')].Timestamp
     /\ parser.index[returningPid] # <<>> =>
          out'[Len(out')].Timestamp < parser.index[returningPid][1].startTicks

\* The claim for the events of the kinds a record yields, Free apart.
timedEventsWithinBatch == [][eventWithinBatch(ValidKinds \ {EventFree})]_vars

\* The claim for the Free events.
freeEventsWithinBatch == [][eventWithinBatch({EventFree})]_vars

\* C19: every event that Next returns from a batch b of a processor has a
\* timestamp t with b.start_ticks <= t < start ticks of the next batch of the
\* same processor; this includes Free events, whose timestamp is that of the
\* most recent Sweep record.
C19_EventsWithinBatch == [][eventWithinBatch(ValidKinds \cup {EventBad})]_vars

(***************************************************************************)
(* One batchReader over one batch of SpanAcquire, Alloc, AllocArray and    *)
(* SpanRelease records, as Parser.refill sets it up.                       *)
(***************************************************************************)

\* The most records of the batch.
MaxRecords == 3

ReaderClasses == {3, 4}

ReaderBases == {4096, 8192}

\* The start ticks of the batch.
ReaderTicks == {100}

\* The records: [tag, class, base, offset, diff, delta].
ReaderRecords ==
  [tag : {atEvSpanAcquire}, class : ReaderClasses, base : ReaderBases,
   offset : {0}, diff : {0}, delta : {0}]
  \cup [tag : {atEvAlloc}, class : ReaderClasses, base : {0},
        offset : {64}, diff : {0}, delta : {5}]
  \cup [tag : {atEvAllocArray}, class : ReaderClasses, base : {0},
        offset : {200}, diff : {8}, delta : {7}]
  \cup [tag : {atEvSpanRelease}, class : ReaderClasses, base : {0},
        offset : {0}, diff : {0}, delta : {0}]

RECURSIVE recordSeqs(_)
recordSeqs(n) ==
  IF n = 0 THEN {<<>>}
  ELSE {Append(s, r) : s \in recordSeqs(n - 1), r \in ReaderRecords}

\* The bytes of a record.
encodeRecord(r) ==
  CASE r.tag = atEvSpanAcquire -> recSpanAcquire(r.class, r.base)
    [] r.tag = atEvSpanRelease -> <<atEvSpanRelease, r.class>>
    [] OTHER -> <<r.tag, r.class>> \o encodeVarint(r.offset) \o encodeVarint(r.diff)
                  \o encodeVarint(r.delta)

RECURSIVE encodeRecords(_)
encodeRecords(recs) ==
  IF recs = <<>> THEN <<>> ELSE encodeRecord(Head(recs)) \o encodeRecords(Tail(recs))

\* The batchReader as Parser.refill leaves it before its nextEvent call.
readerOver(ticks, recs) ==
  [ZeroBatchReader EXCEPT
     !.batchBuf = encodeBatch(1, ticks, encodeRecords(recs)),
     !.readOff = boHeaderSize([startTicks |-> ticks, fileOffset |-> headerSize]),
     !.readLen = batchSize - boHeaderSize([startTicks |-> ticks, fileOffset |-> headerSize]),
     !.syncTick = ticks]

InitReader ==
  /\ ParserOff("reader")
  /\ SimIdle
  /\ vint = NoVarint /\ mrg = NoMerge /\ heap = NoHeap
  /\ \E ticks \in ReaderTicks :
       \E recs \in UNION {recordSeqs(n) : n \in 0..MaxRecords} :
         rdr = [pc |-> "read", recs |-> recs, ticks |-> ticks,
                b |-> readerOver(ticks, recs), err |-> "", evs |-> <<>>]

\* One call of batchReader.nextEvent.
ReadEvent ==
  /\ rdr.pc = "read"
  /\ \E res \in {nextEvent(rdr.b)} :
       rdr' = [rdr EXCEPT
                 !.b = res.b,
                 !.err = res.err,
                 !.pc = IF res.err = "" THEN "read" ELSE "stopped",
                 !.evs = IF res.err = "" THEN Append(@, res.b.next) ELSE @]
  /\ UNCHANGED <<parserVars, simVars, vint, mrg, heap>>

NextReader == ReadEvent

SpecReader == InitReader /\ [][NextReader]_vars

\* The record is an Alloc or an AllocArray.
isAllocRecord(r) == r.tag \in {atEvAlloc, atEvAllocArray}

\* The base the most recent SpanAcquire of class c before record k set, or 0
\* if there is none or a SpanRelease of c followed it.
activeBase(recs, k, c) ==
  LET acquires == {j \in 1..(k - 1) :
                     recs[j].tag = atEvSpanAcquire /\ recs[j].class = c}
      last == CHOOSE j \in acquires : \A i \in acquires : i <= j
  IN IF acquires = {} THEN 0
     ELSE IF \E i \in (last + 1)..(k - 1) :
               recs[i].tag = atEvSpanRelease /\ recs[i].class = c
       THEN 0
     ELSE recs[last].base

\* The record uses a span class that is not acquired.
unacquired(recs, k) ==
  /\ recs[k].tag \in {atEvAlloc, atEvAllocArray, atEvSpanRelease}
  /\ activeBase(recs, k, recs[k].class) = 0

\* The records before the first one that uses an unacquired class.
readable(recs) == {k \in 1..Len(recs) : \A j \in 1..k : ~unacquired(recs, j)}

\* The positions of the Alloc and AllocArray records among them.
allocPositions(recs) == {k \in readable(recs) : isAllocRecord(recs[k])}

\* The position of the j-th of them.
allocPosition(recs, j) ==
  CHOOSE k \in allocPositions(recs) :
    Cardinality({i \in allocPositions(recs) : i <= k}) = j

\* The event the claim gives for the record at position k.
allocEvent(recs, ticks, k) ==
  [Timestamp |-> ticks + recs[k].delta,
   Address |-> activeBase(recs, k, recs[k].class) + recs[k].offset,
   Size |-> classToSize(recs[k].class) - recs[k].diff,
   P |-> 0,
   Array |-> recs[k].tag = atEvAllocArray,
   PointerFree |-> FALSE,
   Kind |-> EventAlloc]

\* C20: an Alloc or AllocArray record of class c >= 2 yields an Alloc event
\* at address base + offset, where base was set by the most recent SpanAcquire
\* of c that no SpanRelease of c has followed, with size class_size(c) -
\* size_diff, timestamp sync + tick_delta and the array flag set iff the tag
\* is AllocArray; without such a base the record is refused.
C20_AllocFromAcquiredSpan ==
  rdr.pc \in {"read", "stopped"} =>
    /\ Len(rdr.evs) <= Cardinality(allocPositions(rdr.recs))
    /\ \A j \in 1..Len(rdr.evs) :
         rdr.evs[j] = allocEvent(rdr.recs, rdr.ticks, allocPosition(rdr.recs, j))
    /\ rdr.pc = "stopped" =>
         /\ Len(rdr.evs) = Cardinality(allocPositions(rdr.recs))
         /\ rdr.err =
              IF readable(rdr.recs) = 1..Len(rdr.recs) THEN "streamEnd"
              ELSE IF isAllocRecord(rdr.recs[Cardinality(readable(rdr.recs)) + 1])
                THEN "allocation from unacquired span class"
              ELSE "release of unacquired span class"

\* The example of the claim, SpanAcquire(3, 0x1000) Alloc(3, 0x40, 0, 5) with
\* start ticks 100, has been read, followed by an AllocArray of the class.
C20_ExampleAllocRead ==
  /\ rdr.pc = "read"
  /\ Len(rdr.recs) = 3
  /\ rdr.recs[1] = [tag |-> atEvSpanAcquire, class |-> 3, base |-> 4096,
                    offset |-> 0, diff |-> 0, delta |-> 0]
  /\ rdr.recs[2].tag = atEvAlloc /\ rdr.recs[2].class = 3
  /\ rdr.recs[3].tag = atEvAllocArray /\ rdr.recs[3].class = 3
  /\ Len(rdr.evs) = 2
  /\ rdr.evs[1].Address = 4160 /\ rdr.evs[1].Timestamp = 105
  /\ rdr.evs[1].Size = classToSize(3) /\ ~rdr.evs[1].Array
  /\ rdr.evs[2].Address = 4296 /\ rdr.evs[2].Array

(***************************************************************************)
(* Decode errors.  A batchReader that has read its batch up to the last    *)
(* few bytes: readBuf is the end of batchBuf, and the bytes left hold at   *)
(* most one whole record followed by a defective one.                      *)
(***************************************************************************)

\* The spans acquired by the records read so far.
TailBases == Put(EmptyMap, 3, 4096)

\* Whole records the reader accepts in that state, with the events they yield.
TailPrefixes ==
  { [bytes |-> <<>>, events |-> 0],
    [bytes |-> recAlloc(3, 64, 0, 5), events |-> 1],
    [bytes |-> <<atEvSync>> \o encodeVarint(300), events |-> 0],
    [bytes |-> recSpanAcquire(4, 8192) \o recStackFree(64, 2), events |-> 1] }

\* The records that are cut off.
CutRecords ==
  { recSpanAcquire(4, 8192), recAlloc(3, 64, 0, 5),
    <<atEvAllocArray, 3>> \o encodeVarint(200) \o encodeVarint(8) \o encodeVarint(7),
    recAllocLarge(4096, 40960, 7), <<atEvSpanRelease, 3>>, recSweep(3, 8192),
    recFree(128), recSweepTerm(2), recMarkTerm(5), <<atEvSync>> \o encodeVarint(300),
    recStackAlloc(11, 64, 0), recStackFree(64, 2) }

\* A varint of n continuation bytes and a final byte.
continued(n, byte) == [i \in 1..n |-> byte] \o <<0>>

\* The defective endings: [kind, bytes, whole], whole telling whether bytes
\* are followed by the rest of the buffer or end it.
TailDefects ==
  {[kind |-> "none", bytes |-> <<atEvBatchEnd>>, whole |-> TRUE]}
  \cup UNION {{[kind |-> "truncated", bytes |-> SubSeq(r, 1, k), whole |-> FALSE] :
                 k \in 1..(Len(r) - 1)} : r \in CutRecords}
  \cup {[kind |-> "overlong", bytes |-> <<tag>> \o continued(10, 128), whole |-> TRUE] :
          tag \in {atEvSync, atEvFree, atEvSweep, atEvAllocLarge, atEvStackFree}}
  \cup {[kind |-> "overlong", bytes |-> <<tag, 3>> \o continued(11, 128), whole |-> TRUE] :
          tag \in {atEvSpanAcquire, atEvAlloc, atEvStackAlloc}}
  \cup {[kind |-> "unknown", bytes |-> <<tag>>, whole |-> TRUE] :
          tag \in {atEvBad, atEvStackFree + 1, 255}}
  \cup {[kind |-> "header", bytes |-> <<atEvBatchStart, 1, atEvSync, 5>>, whole |-> TRUE]}
  \cup {[kind |-> "unacquiredAlloc", bytes |-> <<tag, c, 64, 0, 5>>, whole |-> TRUE] :
          tag \in {atEvAlloc, atEvAllocArray}, c \in {2, 5, 254, 255}}
  \cup {[kind |-> "unacquiredRelease", bytes |-> <<atEvSpanRelease, c>>, whole |-> TRUE] :
          c \in {0, 1, 5, 254, 255}}

\* The batchReader with the bytes left to read, the buffer ending after them
\* or going on with a BatchEnd.
readerAtTail(ticks, bytes, whole) ==
  [ZeroBatchReader EXCEPT
     !.batchBuf = IF whole THEN bytes \o <<atEvBatchEnd>> ELSE bytes,
     !.readOff = 0,
     !.readLen = IF whole THEN Len(bytes) + 1 ELSE Len(bytes),
     !.syncTick = ticks,
     !.allocBase = TailBases]

InitTail ==
  /\ ParserOff("reader")
  /\ SimIdle
  /\ vint = NoVarint /\ mrg = NoMerge /\ heap = NoHeap
  /\ \E ticks \in ReaderTicks, pre \in TailPrefixes :
       \E d \in TailDefects :
         rdr = [pc |-> "read", recs |-> <<>>, ticks |-> ticks,
                b |-> readerAtTail(ticks, pre.bytes \o d.bytes, d.whole),
                err |-> "", evs |-> <<>>,
                defect |-> d, good |-> pre.events]

SpecTail == InitTail /\ [][NextReader]_vars

\* The errors of parseVarint as nextEvent wraps them.
ParseErrors ==
  {"parsing span base", "parsing offset for alloc", "parsing size for alloc",
   "parsing tick delta for alloc", "parsing address for large alloc",
   "parsing size for large alloc", "parsing ticks for sweep",
   "parsing tick delta for sweep", "parsing offset for free",
   "parsing termination event timestamp", "parsing sync event timestamp",
   "parsing stack alloc", "parsing stack free"}

\* The error values that report a defect of the kind.
errorsOf(kind) ==
  CASE kind \in {"truncated", "overlong"} -> ParseErrors
    [] kind = "unknown" -> {"unknown event type"}
    [] kind = "header" -> {"unexpected header found"}
    [] kind = "unacquiredAlloc" -> {"allocation from unacquired span class"}
    [] kind = "unacquiredRelease" -> {"release of unacquired span class"}
    [] OTHER -> {"streamEnd"}

\* The reader never yields an event for the defective record, and stops at it
\* with an error value of its kind.
defectSurfaced ==
  /\ Len(rdr.evs) <= rdr.good
  /\ rdr.pc = "stopped" => (Len(rdr.evs) = rdr.good /\ rdr.err \in errorsOf(rdr.defect.kind))

\* The defects at which the reader indexes past readBuf or past allocBase: a
\* record cut off right after the tag of a record with a class or order byte,
\* and class 255.
indexedOutOfRange(d) ==
  \/ d.kind = "truncated" /\ Len(d.bytes) = 1 /\ hasSecondByte(d.bytes[1])
  \/ d.kind \in {"unacquiredAlloc", "unacquiredRelease"} /\ d.bytes[2] = 255

\* Every other defect is surfaced as an error value.
defectsInRangeSurfaced ==
  (rdr.pc # "off" /\ ~indexedOutOfRange(rdr.defect)) => defectSurfaced

\* Those are not: the call panics.
defectsOutOfRangePanic ==
  (rdr.pc = "stopped" /\ indexedOutOfRange(rdr.defect)) =>
     rdr.err = "panic: index out of range"

\* C21: a record cut off by the end of the batch buffer, a varint of more
\* than 9 continuation bytes, an unknown tag, a BatchStart in a batch body, an
\* allocation from an unacquired class >= 2 and a release of an unacquired
\* class each make the call return an error value, and never an event.
C21_DecodeErrorsSurfaced ==
  (rdr.pc # "off" /\ rdr.defect.kind # "none") => defectSurfaced

\* The same defects in the batches of a trace of one processor: a defective
\* batch alone, before a batch without records, or after one.
BodyPrefixes ==
  { [bytes |-> <<>>, events |-> 0],
    [bytes |-> recSpanAcquire(3, 4096) \o recAlloc(3, 64, 0, 5), events |-> 1],
    [bytes |-> <<atEvSync>> \o encodeVarint(300), events |-> 0],
    [bytes |-> recSpanAcquire(4, 8192) \o recStackFree(64, 2), events |-> 1],
    [bytes |-> recSpanAcquire(3, 4096) \o recAlloc(3, 64, 0, 5)
                 \o recAlloc(3, 128, 0, 7),
     events |-> 2] }

defectBodies ==
  {[pre |-> pre, d |-> d] :
     pre \in BodyPrefixes, d \in {x \in TailDefects : x.whole /\ ~indexedOutOfRange(x)}}

noDefectBody ==
  [pre |-> [bytes |-> <<>>, events |-> 0],
   d |-> [kind |-> "none", bytes |-> <<atEvBatchEnd>>, whole |-> TRUE]]

defectDescs ==
  {<<x>> : x \in defectBodies}
    \cup {<<x, noDefectBody>> : x \in defectBodies}
    \cup {<<noDefectBody, x>> : x \in defectBodies}

encodeDefectTrace(t) ==
  [i \in 1..Len(t) |-> encodeBatch(1, 10 * i, t[i].pre.bytes \o t[i].d.bytes)]

InitDefects ==
  ParserInit({encodeDefectTrace(t) : t \in defectDescs}, {GoodHeader}, {0}, 1..MaxProcs)

SpecDefects == InitDefects /\ [][NextParser]_vars

\* The batches the source was encoded from.
defectsOf(r) == CHOOSE t \in defectDescs : encodeDefectTrace(t) = r.batches

defectKinds(t) == {t[i].d.kind : i \in 1..Len(t)} \ {"none"}

\* NewParser or Next reports the defect of the trace as an error value, Next
\* never reaches the end of the stream, and no more events are returned than
\* the whole records hold.
parserSurfaced(t) ==
  /\ phase # "eof"
  /\ Len(out) <= SeqSum([i \in 1..Len(t) |-> t[i].pre.events])
  /\ phase = "error" => \E k \in defectKinds(t) : perr \in errorsOf(k)
  /\ phase = "failed" =>
       \E k \in defectKinds(t) : perr \in {"initializing parser: " \o e : e \in errorsOf(k)}

defectsSurfacedByParser == defectKinds(defectsOf(src)) # {} => parserSurfaced(defectsOf(src))

(***************************************************************************)
(* The page allocator on its own: AllocPages and FreePages called as the   *)
(* object and stack allocators call them, on the world of a new simulator. *)
(***************************************************************************)

\* The most AllocPages calls of a run.
MaxPageCalls == 3

\* The page counts asked for: a page, a run the page cache cannot serve, a
\* run longer than a chunk, and a run longer than an arena.
PageCounts == {1, 16, go114ChunkPages + 88, go114ArenaSize \div go114PageSize + 1}

PageProcs == {NoP, 0}

\* p.curr and p.currIdx: where findFirstFree starts its walk.
walkCursor(p) == [curr |-> p.curr, currIdx |-> p.currIdx]

InitPages ==
  /\ ParserOff("pages")
  /\ SimIdle
  /\ vint = NoVarint /\ mrg = NoMerge /\ rdr = NoReader
  /\ heap = [pc |-> "run", runs |-> {}, calls |-> 0, last |-> "none",
             was |-> walkCursor(sim.pa.pages)]

\* Go114.AllocPages(ctx, n).
PagesAlloc ==
  /\ heap.pc = "run" /\ Ok(sim)
  /\ heap.calls < MaxPageCalls
  /\ \E P \in PageProcs, n \in PageCounts :
       /\ sim' = AllocPages(sim, P, n)
       /\ heap' = [heap EXCEPT
                     !.runs = IF Ok(sim') THEN @ \cup {[addr |-> sim'.ret, n |-> n]} ELSE @,
                     !.calls = @ + 1,
                     !.last = "alloc",
                     !.was = walkCursor(sim.pa.pages)]
  /\ UNCHANGED <<parserVars, run, pos, lastEv, hist, vint, mrg, rdr>>

\* Go114.FreePages(ctx, addr, n) of a run handed out before.
PagesFree ==
  /\ heap.pc = "run" /\ Ok(sim)
  /\ \E r \in heap.runs :
       /\ sim' = FreePages(sim, r.addr, r.n)
       /\ heap' = [heap EXCEPT !.runs = @ \ {r}, !.last = "free",
                                !.was = walkCursor(sim.pa.pages)]
  /\ UNCHANGED <<parserVars, run, pos, lastEv, hist, vint, mrg, rdr>>

NextPages == PagesAlloc \/ PagesFree

SpecPages == InitPages /\ [][NextPages]_vars

\* The range the last MapAligned call returned: the address space ends at
\* its end.
lastMapped(w) == [base |-> w.asBase - w.ret2, size |-> w.ret2]

\* C22: the base address MapAligned returns is a multiple of the page-rounded
\* size it returns, for every size and alignment the page allocator asks for.
C22_MappedRangeAlignedToSize ==
  (heap.pc = "run" /\ sim.live.mapped > 0) =>
     lastMapped(sim).base % lastMapped(sim).size = 0

\* The ranges of one arena are aligned to their size.
arenaRangesAligned ==
  (heap.pc = "run" /\ sim.live.mapped > 0 /\ lastMapped(sim).size = go114ArenaSize) =>
     lastMapped(sim).base % lastMapped(sim).size = 0

(***************************************************************************)
(* The object allocators on their own, called as the ObjectAllocator       *)
(* interface prescribes: objects are allocated while a GC cycle runs and   *)
(* after the DeadObject calls that follow GCEnd; GCStart ends that state.  *)
(* heap.gc is "mark" from GCStart (or the start) to GCEnd, "dead" while    *)
(* the DeadObject calls after GCEnd arrive, "alloc" from the first         *)
(* allocation after them to GCStart.                                       *)
(***************************************************************************)

\* The most AllocObject calls of a run.
MaxObjCalls == 3

\* A request of AllocObject.
Req(P, size, array) == [P |-> P, size |-> size, array |-> array]

\* The requests: for Immix a tiny object, small objects with a header of 8
\* and of 16 bytes, a medium and a large object; for Go115 two size classes
\* and a large object; each on two processors.
ObjRequests(kind) ==
  IF kind = "immix"
    THEN {Req(0, 128, TRUE), Req(0, 200, TRUE), Req(0, 465, TRUE), Req(1, 465, FALSE),
          Req(1, 3000, TRUE), Req(0, 40960, FALSE), Req(1, 40960, TRUE)}
    ELSE {Req(0, 20480, FALSE), Req(1, 20480, FALSE), Req(0, 21000, FALSE),
          Req(0, 40960, FALSE), Req(1, 40960, FALSE)}

InitObjects ==
  /\ ParserOff("objects")
  /\ vint = NoVarint /\ mrg = NoMerge /\ rdr = NoReader
  /\ run \in [kind : {"go115", "immix"}, events : {<<>>}]
  /\ sim = NewSimulator(run.kind)
  /\ pos = 0
  /\ lastEv = ZeroEvent
  /\ hist = <<>>
  /\ heap = [pc |-> "objects", gc |-> "mark", objs |-> {}, calls |-> 0,
             last |-> [op |-> "none"], before |-> sim]

\* The world after a call: a panic ends the run.
afterCall(w, res) ==
  IF Ok(res) THEN [res EXCEPT !.ret2 = 0] ELSE [w EXCEPT !.panic = res.panic]

\* ObjectAllocator.AllocObject(ctx, size, array, false).
ObjAlloc ==
  /\ heap.pc = "objects" /\ Ok(sim)
  /\ heap.calls < MaxObjCalls
  /\ \E rq \in ObjRequests(sim.oa.kind) :
       \E res \in {AllocObject(sim, rq.P, rq.size, rq.array, FALSE)} :
         /\ sim' = afterCall(sim, res)
         /\ heap' = [heap EXCEPT
                       !.objs = IF Ok(res)
                                  THEN @ \cup {[addr |-> res.ret, size |-> rq.size,
                                                array |-> rq.array]}
                                  ELSE @,
                       !.calls = @ + 1,
                       !.gc = IF @ = "dead" THEN "alloc" ELSE @,
                       !.last = [op |-> "alloc", addr |-> res.ret, size |-> rq.size,
                                 array |-> rq.array],
                       !.before = sim]
  /\ UNCHANGED <<parserVars, run, pos, lastEv, hist, vint, mrg, rdr>>

\* The object has a span of its own.
largeObject(o) == o.size > go115MaxSmallObjectSize

\* ObjectAllocator.DeadObject(ctx, addr) of a live object: after GCEnd, or at
\* any time for a large object (the Simulator hands a Free event through
\* while a cycle runs).
ObjDead ==
  /\ heap.pc = "objects" /\ Ok(sim)
  /\ \E o \in {x \in heap.objs : heap.gc = "dead" \/ largeObject(x)} :
       \E res \in {DeadObject(sim, o.addr)} :
         /\ sim' = afterCall(sim, res)
         /\ heap' = [heap EXCEPT
                       !.objs = @ \ {o},
                       !.last = [op |-> "dead", addr |-> o.addr, size |-> o.size,
                                 array |-> o.array],
                       !.before = sim]
  /\ UNCHANGED <<parserVars, run, pos, lastEv, hist, vint, mrg, rdr>>

\* ObjectAllocator.GCStart(ctx).
ObjGCStart ==
  /\ heap.pc = "objects" /\ Ok(sim)
  /\ heap.gc \in {"dead", "alloc"}
  /\ sim' = afterCall(sim, oaGCStart(sim))
  /\ heap' = [heap EXCEPT !.gc = "mark", !.last = [op |-> "gcstart"], !.before = sim]
  /\ UNCHANGED <<parserVars, run, pos, lastEv, hist, vint, mrg, rdr>>

\* ObjectAllocator.GCEnd(ctx), the caches met in any order.
ObjGCEnd ==
  /\ heap.pc = "objects" /\ Ok(sim)
  /\ heap.gc = "mark"
  /\ \E order \in Orders(DOMAIN sim.oa.caches) :
       sim' = afterCall(sim, oaGCEnd(sim, order))
  /\ heap' = [heap EXCEPT !.gc = "dead", !.last = [op |-> "gcend"], !.before = sim]
  /\ UNCHANGED <<parserVars, run, pos, lastEv, hist, vint, mrg, rdr>>

NextObjects == ObjAlloc \/ ObjDead \/ ObjGCStart \/ ObjGCEnd

SpecObjects == InitObjects /\ [][NextObjects]_vars

noPanic == Ok(sim)

\* The header AllocObject charges for the object: none for a large object.
chargedHeader(o) ==
  IF o.size <= immixMaxSmallSize THEN immixHeaderSize(o.size, o.array) ELSE 0

immixRun == heap.pc = "objects" /\ sim.oa.kind = "immix" /\ Ok(sim)

\* C23: with Immix the statistic ImmixLiveObjectHeaderBytes is the sum of the
\* header sizes of the objects allocated and not yet marked dead, and the
\* header size DeadObject decodes from the size recorded for a live object is
\* the header size AllocObject charged for it.
C23_ImmixHeaderBytesOfLiveObjects ==
  immixRun =>
    /\ sim.stats.other[immixHeaderStat]
         = SetSum(heap.objs, [o \in heap.objs |-> chargedHeader(o)])
    /\ \A o \in heap.objs :
         /\ o.addr \in DOMAIN sim.oa.objectSizes
         /\ immixHeaderOf(sim.oa.objectSizes[o.addr]) = chargedHeader(o)

\* An array object with a header of 16 bytes has been marked dead while an
\* object with a header of 8 bytes is live.
C23_ArrayObjectDied ==
  /\ immixRun
  /\ heap.last.op = "dead" /\ heap.last.size = 465 /\ heap.last.array
  /\ \E o \in heap.objs : chargedHeader(o) = 8
  /\ sim.stats.other[immixHeaderStat] = 8

\* The pages of n bytes at addr.
pagesOf(addr, n) ==
  {addr \div go114PageSize + i : i \in 0..(BytesToPages(n, go114PageSize) - 1)}

\* A large object has been allocated by the last call but one and marked
\* dead by the last call.
largeAllocatedAndDied ==
  /\ heap.last.op = "alloc" /\ heap'.last.op = "dead"
  /\ heap'.last.addr = heap.last.addr
  /\ heap.last.size > go115MaxSmallObjectSize

\* The pages of the object are free and its span is gone.
pagesFreedEagerly(w, o) ==
  /\ Ok(w)
  /\ pagesOf(o.addr, o.size) \cap w.pa.pages.bits = {}
  /\ \A a \in DOMAIN w.oa.index : a \div go114PageSize \notin pagesOf(o.addr, o.size)
  /\ o.addr \notin DOMAIN w.oa.spans
  /\ \A key \in DOMAIN w.oa.central : o.addr \notin SeqToSet(w.oa.central[key])

\* The statistics other than FreeBytes are those of b.
countersRestored(b, a) ==
  /\ a.stats.ObjectBytes = b.stats.ObjectBytes
  /\ a.stats.UnusedBytes = b.stats.UnusedBytes
  /\ a.stats.other = b.stats.other

\* The bytes mapped between b and a.
mappedBetween(b, a) == a.live.mapped - b.live.mapped

\* C24 as stated: AllocObject of an object larger than 32 KiB followed by
\* DeadObject of the address frees the pages in the DeadObject call and
\* restores ObjectBytes, UnusedBytes, FreeBytes and the waste statistics to
\* their values before the allocation.
C24_LargeAllocDeadRestoresAll ==
  [][largeAllocatedAndDied =>
       /\ pagesFreedEagerly(sim', heap'.last)
       /\ countersRestored(heap.before, sim')
       /\ sim'.stats.FreeBytes = heap.before.stats.FreeBytes]_vars

\* C24, amended: AllocObject of an object larger than 32 KiB followed by
\* DeadObject of the address frees the pages in the DeadObject call and
\* restores ObjectBytes, UnusedBytes and the waste statistics to their values
\* before the allocation, and FreeBytes to that value plus the bytes the
\* allocation mapped.
C24_LargeAllocDeadRestores ==
  [][largeAllocatedAndDied =>
       /\ pagesFreedEagerly(sim', heap'.last)
       /\ countersRestored(heap.before, sim')
       /\ sim'.stats.FreeBytes
            = heap.before.stats.FreeBytes + mappedBetween(heap.before, sim')]_vars

\* A large object has died right after its allocation on a heap that holds
\* another object, with waste statistics that are not zero.
C24_LargeDiedAfterAlloc ==
  /\ heap.pc = "objects" /\ Ok(sim)
  /\ heap.last.op = "dead" /\ heap.last.size > go115MaxSmallObjectSize
  /\ heap.before.oa.objectSizes # EmptyMap
  /\ heap.last.addr \in DOMAIN heap.before.oa.objectSizes
  /\ Cardinality(DOMAIN heap.before.oa.objectSizes) = 2
  /\ heap.objs # {}
  /\ sim.stats.UnusedBytes > 0
  /\ mappedBetween(heap.before, sim) = 0

(***************************************************************************)
(* The buffer of the post-mark state (Simulator.Process).                  *)
(***************************************************************************)

\* The kinds the drain loop of Process handles.
DrainableKinds == {EventStackAlloc, EventStackFree, EventAlloc}

\* The buffer holds only events the drain loop handles.
bufferDrainable ==
  \A i \in DOMAIN sim.gcEvents : sim.gcEvents[i].Kind \in DrainableKinds

\* C25: for every event sequence the buffer of the post-mark state holds only
\* Alloc, StackAlloc and StackFree events, and the drain never aborts with
\* "unexpected gc event".
C25_BufferHoldsNoGCEvent ==
  phase = "sim" => (bufferDrainable /\ sim.panic # "unexpected gc event")

\* Free events never reach the buffer, and a GCStart never does.
bufferHoldsNoFreeNoGCStart ==
  phase = "sim" =>
    \A i \in DOMAIN sim.gcEvents : sim.gcEvents[i].Kind \notin {EventFree, EventGCStart}

\* The drain aborted on a GCEnd that arrived in the post-mark state.
drainMetGCEnd ==
  phase = "sim" /\ sim.panic = "unexpected gc event" /\ lastEv.Kind = EventGCStart
  /\ \E i \in DOMAIN sim.gcEvents : sim.gcEvents[i].Kind = EventGCEnd

(***************************************************************************)
(* Free events of the post-mark state (Simulator.Process, DeadObject).     *)
(***************************************************************************)

\* The events handed to Process so far, in their order.
processed == [i \in DOMAIN hist |-> run.events[hist[i]]]

\* The i-th event processed lies between a GCEnd and the following GCStart.
inPostMark(i) ==
  \E g \in 1..(i - 1) :
    /\ processed[g].Kind = EventGCEnd
    /\ \A h \in (g + 1)..(i - 1) : processed[h].Kind # EventGCStart

\* The object the i-th event names was allocated before and not freed since.
namesLive(i) ==
  \E a \in 1..(i - 1) :
    /\ processed[a].Kind = EventAlloc
    /\ processed[a].Address = processed[i].Address
    /\ \A f \in (a + 1)..(i - 1) :
         ~(processed[f].Kind = EventFree
           /\ processed[f].Address = processed[i].Address)

\* Every Free event so far came in the post-mark state and named a live object.
freesInPostMark ==
  \A i \in DOMAIN hist :
    processed[i].Kind = EventFree => (inPostMark(i) /\ namesLive(i))

\* C26: in an event sequence whose Free events all come in the post-mark
\* state and name live objects, DeadObject never meets a cached span: the
\* "found cached span at start of sweep" panic does not happen, with either
\* object allocator.
C26_NoCachedSpanAtSweep ==
  (phase = "sim" /\ freesInPostMark) =>
    sim.panic # "found cached span at start of sweep"

\* A Free of the post-mark state has marked dead an object of a span that a
\* processor cache held until the GCEnd before it.
C26_FreedFromFlushedSpan ==
  /\ phase = "sim" /\ Ok(sim) /\ freesInPostMark
  /\ hist # <<>> /\ lastEv.Kind = EventFree
  /\ \E a \in DOMAIN hist :
       /\ processed[a].Kind = EventAlloc
       /\ processed[a].Address = lastEv.Address
       /\ processed[a].Size <= go115MaxSmallObjectSize
       /\ ~inPostMark(a)
  /\ sim.stats.UnusedBytes > 0

(***************************************************************************)
(* Where the spans of an object allocator are (refill, GCStart, GCEnd,     *)
(* AllocObject, DeadObject).                                               *)
(***************************************************************************)

\* The spans that have not been returned to the page allocator.
heldSpans(w) == {w.oa.index[a] : a \in DOMAIN w.oa.index}

\* The cache slots <<P, "alloc" or "overflow", span class>> that hold span s.
slotsHolding(w, s) ==
  UNION {{<<x[1], x[2], spc>> : spc \in {c \in DOMAIN w.oa.caches[x[1]][x[2]] :
                                            w.oa.caches[x[1]][x[2]][c] = s}} :
         x \in (DOMAIN w.oa.caches) \X {"alloc", "overflow"}}

\* The places <<list key, position>> of span s on the central lists.
placesOnLists(w, s) ==
  UNION {{<<key, i>> : i \in {j \in DOMAIN w.oa.central[key] :
                                   w.oa.central[key][j] = s}} :
         key \in DOMAIN w.oa.central}

\* Span s is in one cache slot and on no list.
inOneSlot(w, s) ==
  /\ Cardinality(slotsHolding(w, s)) = 1
  /\ placesOnLists(w, s) = {}
  /\ w.oa.spans[s].currList = NilList

\* Span s is on one central partial or full list, once, and in no cache slot.
onOneList(w, s) ==
  /\ slotsHolding(w, s) = {}
  /\ Cardinality(placesOnLists(w, s)) = 1
  /\ \A x \in placesOnLists(w, s) :
       x[1] = w.oa.spans[s].currList /\ x[1][2] \in {"partial", "full"}

\* Span s is in exactly one place, and its cached flag says which.
placedOnce(w, s) ==
  \/ inOneSlot(w, s) /\ w.oa.spans[s].cached
  \/ onOneList(w, s) /\ ~w.oa.spans[s].cached

\* An object allocator is run, by the simulator or on its own, and is at a
\* point between two calls.
objectsRun == (heap.pc = "objects" \/ phase = "sim") /\ Ok(sim)

\* C27: in both object allocators every span not returned to the page
\* allocator is in exactly one place: in one cache slot with cached = true
\* and on no list, or on one central list with cached = false.
C27_SpanInExactlyOnePlace ==
  objectsRun => \A s \in heldSpans(sim) : placedOnce(sim, s)

\* Go115 keeps every span in exactly one place, the cached flag included.
go115SpansPlacedOnce ==
  (objectsRun /\ sim.oa.kind = "go115") =>
    \A s \in heldSpans(sim) : placedOnce(sim, s)

\* Immix keeps every span in exactly one place, and a span on a list is not
\* flagged cached; a span in a cache slot may have cached = false.
immixSpansPlacedOnce ==
  (objectsRun /\ sim.oa.kind = "immix") =>
    \A s \in heldSpans(sim) :
      \/ inOneSlot(sim, s)
      \/ onOneList(sim, s) /\ ~sim.oa.spans[s].cached

\* An Immix span that refill has just created sits in a cache slot with
\* cached = false.
immixFreshSpanNotFlagged ==
  /\ heap.pc = "objects" /\ Ok(sim) /\ sim.oa.kind = "immix"
  /\ heap.last.op = "alloc"
  /\ \E s \in heldSpans(sim) : inOneSlot(sim, s) /\ ~sim.oa.spans[s].cached

(***************************************************************************)
(* GCStart of the object allocators.                                       *)
(***************************************************************************)

\* The keys of the lists of the previous epoch that are not empty.
prevLists(w) == {key \in DOMAIN w.oa.central : key[3] = 1 - w.oa.sweptIdx}

\* Span s has no freed objects waiting for a sweep.
sweptClean(w, s) ==
  /\ w.oa.spans[s].freedCount = 0
  /\ IF w.oa.kind = "go115" THEN w.oa.spans[s].freed = {}
     ELSE w.oa.spans[s].lineRefDec = EmptyMap

\* Span s has room for another object: a free slot (Go115), a line that no
\* object lies on (Immix).
hasFreeSpace(w, s) ==
  IF w.oa.kind = "go115"
    THEN w.oa.spans[s].allocCount < w.oa.spans[s].numElems
    ELSE \E i \in 0..(w.oa.spans[s].lineCount - 1) :
           Get(w.oa.spans[s].lineRefCount, i, 0) = 0

\* Span s is once on the list key and on no other list.
onList(w, key, s) ==
  /\ w.oa.spans[s].currList = key
  /\ placesOnLists(w, s) \subseteq {key} \X DOMAIN spanList(w, key)
  /\ Cardinality(placesOnLists(w, s)) = 1

\* Span s of class spc is on the list of the current epoch its free space
\* asks for.
sortedBySpace(w, spc, s) ==
  onList(w, IF hasFreeSpace(w, s) THEN partialKey(spc, w.oa.sweptIdx)
            ELSE fullKey(spc, w.oa.sweptIdx), s)

\* The spans on the lists of the previous epoch, with their span classes.
prevSpans(w) ==
  UNION {{[spc |-> key[1], s |-> w.oa.central[key][i]] :
            i \in DOMAIN w.oa.central[key]} : key \in prevLists(w)}

\* The last call of the allocators' own run was op, and it returned.
returnedFrom(op) == heap.pc = "objects" /\ Ok(sim) /\ heap.last.op = op

\* C28: after GCStart returns the partial and full lists of the previous epoch
\* are empty for every span class, and every span that was on them is swept
\* and sits on the partial list of the current epoch if it has free space and
\* on its full list otherwise.
C28_GCStartSweepsAndRotates ==
  returnedFrom("gcstart") =>
    /\ prevLists(sim) = {}
    /\ \A x \in prevSpans(heap.before) :
         sweptClean(sim, x.s) /\ sortedBySpace(sim, x.spc, x.s)

\* With Go115 the lists of the previous epoch are empty after GCStart and
\* their spans are swept and sorted by free space.
go115GCStartSorts ==
  (returnedFrom("gcstart") /\ sim.oa.kind = "go115") =>
    /\ prevLists(sim) = {}
    /\ \A x \in prevSpans(heap.before) :
         sweptClean(sim, x.s) /\ sortedBySpace(sim, x.spc, x.s)

\* With Immix the lists of the previous epoch are empty after GCStart and
\* their spans are swept; a span of a partial list is on the partial list, a
\* span of a full list is on the list GCStart's test of lineFreeIdx asks
\* for, and a span on the partial list has free space.
immixGCStartRotates ==
  (returnedFrom("gcstart") /\ sim.oa.kind = "immix") =>
    /\ prevLists(sim) = {}
    /\ \A key \in prevLists(heap.before) :
         \A i \in DOMAIN heap.before.oa.central[key] :
           LET s == heap.before.oa.central[key][i]
           IN /\ sweptClean(sim, s)
              /\ onList(sim, IF key[2] = "partial" \/ hasRoom(sim, s)
                               THEN partialKey(key[1], sim.oa.sweptIdx)
                               ELSE fullKey(key[1], sim.oa.sweptIdx), s)
              /\ sim.oa.spans[s].currList[2] = "partial" => hasFreeSpace(sim, s)

\* GCStart has put an Immix span with free lines on the full list.
immixFreeSpanOnFullList ==
  /\ returnedFrom("gcstart") /\ sim.oa.kind = "immix"
  /\ \E x \in prevSpans(heap.before) :
       /\ hasFreeSpace(sim, x.s)
       /\ sim.oa.spans[x.s].currList = fullKey(x.spc, sim.oa.sweptIdx)

\* GCStart has swept a Go115 span of a full list that had a dead object and
\* has put it on the partial list, and has met a partial list as well.
go115FullSpanBecamePartial ==
  /\ returnedFrom("gcstart") /\ sim.oa.kind = "go115"
  /\ \E key \in prevLists(heap.before) :
       /\ key[2] = "full"
       /\ \E i \in DOMAIN heap.before.oa.central[key] :
            /\ ~sweptClean(heap.before, heap.before.oa.central[key][i])
            /\ sim.oa.spans[heap.before.oa.central[key][i]].currList =
                 partialKey(key[1], sim.oa.sweptIdx)
  /\ \E key \in prevLists(heap.before) : key[2] = "partial"

(***************************************************************************)
(* GCEnd of the object allocators.                                         *)
(***************************************************************************)

\* The spans in the cache slots, with the span classes of their slots.
cachedSpans(w) ==
  UNION {{[spc |-> spc, s |-> w.oa.caches[x[1]][x[2]][spc]] :
            spc \in DOMAIN w.oa.caches[x[1]][x[2]]} :
         x \in (DOMAIN w.oa.caches) \X {"alloc", "overflow"}}

\* Every cache slot, the overflow slots included, is empty.
cachesEmpty(w) ==
  \A P \in DOMAIN w.oa.caches :
    w.oa.caches[P].alloc = EmptyMap /\ w.oa.caches[P].overflow = EmptyMap

\* C29: after GCEnd returns every cache slot is empty (for Immix the overflow
\* slots as well), every span that was cached is, with cached = false, on the
\* partial list of the epoch that was current before the call if it has free
\* space and on that epoch's full list otherwise, and swept_idx has been
\* toggled once.
C29_GCEndFlushesAndToggles ==
  returnedFrom("gcend") =>
    /\ cachesEmpty(sim)
    /\ sim.oa.sweptIdx = 1 - heap.before.oa.sweptIdx
    /\ \A x \in cachedSpans(heap.before) :
         /\ ~sim.oa.spans[x.s].cached
         /\ onList(sim, IF hasFreeSpace(sim, x.s)
                          THEN partialKey(x.spc, heap.before.oa.sweptIdx)
                          ELSE fullKey(x.spc, heap.before.oa.sweptIdx), x.s)

\* With Go115 GCEnd empties the caches, sorts the cached spans by free space
\* onto the lists of the epoch it ends, and toggles swept_idx.
go115GCEndFlushes ==
  (returnedFrom("gcend") /\ sim.oa.kind = "go115") =>
    /\ cachesEmpty(sim)
    /\ sim.oa.sweptIdx = 1 - heap.before.oa.sweptIdx
    /\ \A x \in cachedSpans(heap.before) :
         /\ ~sim.oa.spans[x.s].cached
         /\ onList(sim, IF hasFreeSpace(sim, x.s)
                          THEN partialKey(x.spc, heap.before.oa.sweptIdx)
                          ELSE fullKey(x.spc, heap.before.oa.sweptIdx), x.s)

\* With Immix GCEnd empties the caches, puts every cached span on the list of
\* the epoch it ends that its test of lineFreeIdx asks for, and toggles
\* swept_idx.
immixGCEndFlushes ==
  (returnedFrom("gcend") /\ sim.oa.kind = "immix") =>
    /\ cachesEmpty(sim)
    /\ sim.oa.sweptIdx = 1 - heap.before.oa.sweptIdx
    /\ \A x \in cachedSpans(heap.before) :
         /\ ~sim.oa.spans[x.s].cached
         /\ onList(sim, IF hasRoom(sim, x.s)
                          THEN partialKey(x.spc, heap.before.oa.sweptIdx)
                          ELSE fullKey(x.spc, heap.before.oa.sweptIdx), x.s)

\* GCEnd has flushed an Immix span with free lines to the full list.
immixFreeSpanFlushedToFull ==
  /\ returnedFrom("gcend") /\ sim.oa.kind = "immix"
  /\ \E x \in cachedSpans(heap.before) :
       /\ hasFreeSpace(sim, x.s)
       /\ sim.oa.spans[x.s].currList = fullKey(x.spc, heap.before.oa.sweptIdx)

\* GCEnd has flushed the caches of two processors, and an overflow slot or a
\* full span among them.
flushedTwoCaches ==
  /\ returnedFrom("gcend")
  /\ \A P \in {0, 1} :
       P \in DOMAIN heap.before.oa.caches
       /\ heap.before.oa.caches[P].alloc # EmptyMap
  /\ \/ \E P \in {0, 1} : heap.before.oa.caches[P].overflow # EmptyMap
     \/ \E x \in cachedSpans(heap.before) : ~hasFreeSpace(sim, x.s)

(***************************************************************************)
(* The walk cursor of the page allocator (findFirstFree, free).            *)
(***************************************************************************)

\* The ordinal of the walk cursor in chunk-list order; past the last page
\* when curr is nil.
cursorOrdinal(p) ==
  IF p.curr = 0 THEN Len(p.chunks) * go114ChunkPages
  ELSE pageOrdinal(p.curr, p.currIdx)

\* The free pages - bitmap bit clear - before the walk cursor.
freeBeforeCursor(p) ==
  {k \in 0..(cursorOrdinal(p) - 1) : ordinalFree(p, k)}

\* The page allocator's own run is at a point after a call that returned,
\* the heap having been grown.
pagesGrown == heap.pc = "run" /\ Ok(sim) /\ sim.pa.pages.chunks # <<>>

\* C30: once the heap has been grown, after every AllocPages and FreePages
\* call no free page lies before the walk cursor (curr, currIdx) in
\* chunk-list order.
C30_NoFreePageBeforeCursor ==
  pagesGrown => freeBeforeCursor(sim.pa.pages) = {}

\* FreePages has freed pages before the walk cursor and rewound it to them.
C30_CursorRewound ==
  /\ pagesGrown /\ heap.last = "free"
  /\ heap.was.curr # 0
  /\ cursorOrdinal(sim.pa.pages) < pageOrdinal(heap.was.curr, heap.was.currIdx)
  /\ ordinalFree(sim.pa.pages, cursorOrdinal(sim.pa.pages))

(***************************************************************************)
(* The page allocator called with ranges it has freed before (FreePages,   *)
(* go114Pages.free, allocCache).                                           *)
(***************************************************************************)

\* The most AllocPages calls of a run with repeated frees.
MaxRefreeCalls == 4

\* The page counts asked for: one the page cache can serve, one it cannot.
RefreeCounts == {1, 16}

\* The pages that are clear in the page cache of a processor.
clearInCache(w, P) ==
  {w.pa.pageCaches[P].base \div go114PageSize + b :
     b \in (0..63) \ w.pa.pageCaches[P].cache}

\* The pages that lie clear in some processor's page cache.
heldInCaches(w) == UNION {clearInCache(w, P) : P \in DOMAIN w.pa.pageCaches}

\* The pages of the run r = [addr, n], as page numbers.
runPages(r) == {r.addr \div go114PageSize + i : i \in 0..(r.n - 1)}

InitRefree ==
  /\ ParserOff("pages")
  /\ SimIdle
  /\ vint = NoVarint /\ mrg = NoMerge /\ rdr = NoReader
  /\ heap = [pc |-> "refree", runs |-> {}, freed |-> {}, calls |-> 0,
             last |-> [op |-> "none"]]

\* Go114.AllocPages(ctx, n); a range freed before that shares a page with the
\* new run has been allocated again.
RefreeAlloc ==
  /\ heap.pc = "refree" /\ Ok(sim)
  /\ heap.calls < MaxRefreeCalls
  /\ \E P \in PageProcs, n \in RefreeCounts :
       \E res \in {AllocPages(sim, P, n)} :
         /\ sim' = res
         /\ heap' = [heap EXCEPT
                       !.runs = IF Ok(res) THEN @ \cup {[addr |-> res.ret, n |-> n]}
                                ELSE @,
                       !.freed = IF Ok(res)
                                   THEN {r \in @ : runPages(r) \cap
                                           runPages([addr |-> res.ret, n |-> n]) = {}}
                                   ELSE @,
                       !.calls = @ + 1,
                       !.last = [op |-> "alloc", P |-> P, addr |-> res.ret, n |-> n]]
  /\ UNCHANGED <<parserVars, run, pos, lastEv, hist, vint, mrg, rdr>>

\* Go114.FreePages(ctx, addr, n) of a run handed out and not freed yet.
RefreeFree ==
  /\ heap.pc = "refree" /\ Ok(sim)
  /\ \E r \in heap.runs :
       /\ sim' = FreePages(sim, r.addr, r.n)
       /\ heap' = [heap EXCEPT !.runs = @ \ {r}, !.freed = @ \cup {r},
                               !.last = [op |-> "free", P |-> NoP,
                                         addr |-> r.addr, n |-> r.n]]
  /\ UNCHANGED <<parserVars, run, pos, lastEv, hist, vint, mrg, rdr>>

\* Go114.FreePages(ctx, addr, n) of a run freed before, none of whose pages
\* has been allocated since.
RefreeAgain ==
  /\ heap.pc = "refree" /\ Ok(sim)
  /\ \E r \in heap.freed :
       /\ sim' = FreePages(sim, r.addr, r.n)
       /\ heap' = [heap EXCEPT !.freed = @ \ {r},
                               !.last = [op |-> "again", P |-> NoP,
                                         addr |-> r.addr, n |-> r.n,
                                         held |-> runPages(r) \cap
                                                    heldInCaches(sim) # {}]]
  /\ UNCHANGED <<parserVars, run, pos, lastEv, hist, vint, mrg, rdr>>

NextRefree == RefreeAlloc \/ RefreeFree \/ RefreeAgain

SpecRefree == InitRefree /\ [][NextRefree]_vars

\* C31: FreePages aborts whenever it is called on a page range that was freed
\* before and not allocated again since.
C31_DoubleFreeAborts ==
  (heap.pc = "refree" /\ heap.last.op = "again") => ~Ok(sim)

\* A double free of a range no page of which lay clear in a page cache
\* aborts.
doubleFreeOutsideCachesAborts ==
  (heap.pc = "refree" /\ heap.last.op = "again" /\ ~heap.last.held) => ~Ok(sim)

\* A double free went through: a page of the range lay clear in a page cache.
doubleFreeWentThrough ==
  heap.pc = "refree" /\ heap.last.op = "again" /\ Ok(sim) /\ heap.last.held

\* A double free was met with "attempted to double free page".
doubleFreeCaught ==
  /\ heap.pc = "refree" /\ heap.last.op = "again"
  /\ sim.panic = "attempted to double free page"

(***************************************************************************)
(* The chunk list of the page allocator (go114Pages.grow, MapAligned).     *)
(***************************************************************************)

\* The chunk list, head to tail, is in strictly ascending order of base
\* address, and no two chunks overlap.
chunksAscending(p) ==
  \A c \in 1..(Len(p.chunks) - 1) : p.chunks[c] + go114ChunkBytes <= p.chunks[c + 1]

overflowSpans(w) ==
  UNION {{w.oa.caches[P].overflow[spc] : spc \in DOMAIN w.oa.caches[P].overflow} :
         P \in DOMAIN w.oa.caches}

\* Medium objects of two processors: each leaves a span whose first line is
\* free and whose second is not; a primary span is then taken from the
\* partial list, the next object does not fit its one line, and the
\* overflow slot is refilled while the other span is on the partial list.
OverflowEvents ==
  <<EvAlloc(1, 5000, 0), EvAlloc(2, 30000, 0), EvAlloc(3, 5000, 1),
    EvAlloc(4, 30000, 1), EvGCEnd, EvFree(1), EvFree(3), EvGCStart,
    EvAlloc(5, 5000, 0), EvAlloc(6, 3000, 0), EvAllocArray(7, 30000, 0),
    EvAlloc(8, 200, 0)>>

\* Small objects that fill a span but for the end of its last line, then
\* objects that do not fit what is left.
SpanEndEvents ==
  <<EvAlloc(1, 2000, 0), EvAlloc(2, 2000, 0), EvAlloc(3, 2000, 0),
    EvAlloc(4, 2000, 0), EvAlloc(5, 100, 0), EvAlloc(6, 1000, 0), EvGCEnd,
    EvFree(2), EvFree(3), EvGCStart, EvAlloc(7, 1000, 0), EvAlloc(8, 2000, 0)>>

OverflowRuns ==
  {[kind |-> "immix", events |-> OverflowEvents],
   [kind |-> "immix", events |-> SpanEndEvents]}

InitOverflow ==
  /\ ParserIdle
  /\ AuxIdle
  /\ run \in OverflowRuns
  /\ sim = NewSimulator(run.kind)
  /\ pos = 0
  /\ lastEv = ZeroEvent
  /\ hist = <<>>

SpecOverflow == InitOverflow /\ [][NextSim]_vars

\* The spans on the central lists.
listedSpans(w) ==
  UNION {{w.oa.central[key][i] : i \in DOMAIN w.oa.central[key]} :
         key \in DOMAIN w.oa.central}

\* A step of the simulator with Immix that ends without a panic.
immixStep == phase = "sim" /\ sim.oa.kind = "immix" /\ Ok(sim) /\ Ok(sim')

\* C33: the span a refill installs in an Immix overflow slot is never taken
\* from a central partial or full list: it is a span freshly allocated from
\* the page allocator.
C33_OverflowRefillAlwaysFresh ==
  [][immixStep =>
       \A s \in overflowSpans(sim') \ overflowSpans(sim) :
         s \notin heldSpans(sim) /\ s \notin listedSpans(sim)]_vars

\* An overflow slot has been refilled while a central list of its span class
\* held a span.
C33_OverflowRefilledBesideLists ==
  /\ phase = "sim" /\ sim.oa.kind = "immix" /\ Ok(sim)
  /\ \E P \in DOMAIN sim.oa.caches :
       \E spc \in DOMAIN sim.oa.caches[P].overflow :
         \E key \in DOMAIN sim.oa.central : key[1] = spc /\ key[2] = "partial"

(***************************************************************************)
(* The retry loop of Immix.AllocObject for tiny, small and medium objects. *)
(***************************************************************************)

\* A step in which Process hands one Alloc event of at most
\* immixMaxSmallSize bytes straight to Immix.AllocObject.
smallAllocStep ==
  /\ immixStep /\ hist' # hist /\ ~sim.collectEvents
  /\ lastEv'.Kind = EventAlloc /\ lastEv'.P # NoP
  /\ lastEv'.Size <= immixMaxSmallSize

\* The header, the size with the header and the span class of that object,
\* and the span in the primary slot when the call begins.
stepHeader == immixHeaderSize(lastEv'.Size, lastEv'.Array)

stepSize == lastEv'.Size + stepHeader

stepClass == immixClassOf(stepSize)

primaryBefore == cachedSpan(sim, "alloc", lastEv'.P, stepClass)

\* The first "s.alloc" of the call returns 0 on a span that is not nil.
primaryFailed ==
  /\ primaryBefore # 0
  /\ immixSpanAlloc(sim, primaryBefore, stepHeader, stepSize).ret = 0

\* The bump region of span sp holds a line or more; lines lie beyond it.
regionHoldsLine(sp) == sp.bumpHi - sp.bumpLo >= sp.lineSize

linesBeyondRegion(sp) == sp.lineFreeIdx < sp.lineCount

\* The span the object of the step was allocated in.
homeAfter ==
  sim'.oa.index[AlignDown(sim'.idToAddress[lastEv'.Address], go114PageSize)]

overflowAfter == cachedSpan(sim', "overflow", lastEv'.P, stepClass)

primaryAfter == cachedSpan(sim', "alloc", lastEv'.P, stepClass)

StackGCEvents ==
  <<EvStackAlloc(1, 16384, NoP), EvStackAlloc(2, 16384, NoP),
    EvStackAlloc(3, 65536, NoP), EvStackAlloc(4, 8192, 0), EvGCStart,
    EvStackFree(1, NoP), EvStackFree(2, NoP), EvStackFree(3, 1),
    EvStackFree(4, NoP), EvGCEnd, EvStackAlloc(5, 65536, 1), EvGCStart>>

StackRuns == {[kind |-> "go115", events |-> StackGCEvents]}

InitStacks ==
  /\ ParserIdle
  /\ AuxIdle
  /\ run \in StackRuns
  /\ sim = NewSimulator(run.kind)
  /\ pos = 0
  /\ lastEv = ZeroEvent
  /\ hist = <<>>

SpecStacks == InitStacks /\ [][NextSim]_vars

\* The spans of the pools (not the full ones) with no stack allocated.
idlePoolSpans(w) ==
  UNION {{w.sa.pool[o][k] : k \in {j \in DOMAIN w.sa.pool[o] :
                                     w.sa.pool[o][j].allocCount = 0}} :
         o \in DOMAIN w.sa.pool}

\* The stacks on the large free lists.
largeFreeStacks(w) ==
  UNION {{w.sa.large[o].list[k] : k \in DOMAIN w.sa.large[o].list} :
         o \in DOMAIN w.sa.large}

\* The pages GCEnd is to return: those of the idle pool spans and of the
\* stacks on the large free lists.
heldStackPages(w) ==
  UNION ({runPages([addr |-> s.base, n |-> go114CachePages]) :
            s \in idlePoolSpans(w)}
         \cup {runPages([addr |-> st.lo,
                         n |-> BytesToPages(Diff(st.lo, st.hi), go114PageSize)]) :
                 st \in largeFreeStacks(w)})

\* A step in which Process hands the event to its handler at once and that
\* ends without a panic.
handledStep ==
  /\ phase = "sim" /\ hist' # hist /\ ~sim.collectEvents /\ Ok(sim) /\ Ok(sim')

\* C35: while GC is running (after the stack allocator's GCStart and before
\* its GCEnd) freeing a stack returns no page to the page allocator; GCEnd
\* returns the pages of every pool span with no stack allocated and of every
\* stack on the large free lists; whenever GC is not running no pool span
\* has an allocCount of zero and every large free list is empty.
C35_StackPagesHeldDuringGC ==
  /\ [][(handledStep /\ sim.sa.gcEnabled /\ lastEv'.Kind = EventStackFree) =>
          sim'.pa = sim.pa]_vars
  /\ [][(handledStep /\ lastEv'.Kind = EventGCEnd) =>
          /\ heldStackPages(sim) \subseteq sim.pa.pages.bits
          /\ sim'.pa.pages.bits = sim.pa.pages.bits \ heldStackPages(sim)]_vars
  /\ []((phase = "sim" /\ Ok(sim) /\ ~sim.sa.gcEnabled) =>
          (idlePoolSpans(sim) = {} /\ largeFreeStacks(sim) = {}))

\* During a GC a pool span has lost its last stack and a large stack lies on
\* its free list: the pages of both are still allocated.
stackPagesHeldDuringGC ==
  /\ phase = "sim" /\ Ok(sim) /\ sim.sa.gcEnabled
  /\ lastEv.Kind = EventStackFree
  /\ idlePoolSpans(sim) # {} /\ largeFreeStacks(sim) # {}
  /\ heldStackPages(sim) \subseteq sim.pa.pages.bits

\* GCEnd has returned the pages of an idle pool span and of a large stack:
\* every stack was freed during the GC and no page is allocated.
C35_PagesReturnedAtGCEnd ==
  /\ phase = "sim" /\ Ok(sim) /\ ~sim.sa.gcEnabled
  /\ lastEv.Kind = EventGCEnd /\ Len(hist) >= 6
  /\ run.events[hist[Len(hist) - 1]].Kind = EventStackFree
  /\ sim.stats.StackBytes = 0
  /\ sim.pa.pages.bits = {}
  /\ Len(sim.pa.pages.chunks) > 0

(***************************************************************************)
(* A whole run of Next over a trace (Parser.Next, next, refill).           *)
(***************************************************************************)

\* The events the records of the rest of a reader's batch yield, and the
\* reader at the end of the batch.
RECURSIVE readerEvents(_)
readerEventsAfter(ne) ==
  IF ne.err # "" THEN [evs |-> <<>>, b |-> ne.b]
  ELSE [evs |-> <<ne.b.next>> \o readerEvents(ne.b).evs, b |-> readerEvents(ne.b).b]

readerEvents(b) == readerEventsAfter(nextEvent(b))

\* The batches of the file written by processor id pid, as positions in the
\* file, and the one with the least start ticks among a set of them.
batchesOfPid(r, pid) ==
  {i \in 1..Len(r.batches) : parseBatchHeader(r.batches[i]).pid = pid}

earliestBatch(r, S) ==
  CHOOSE i \in S : \A j \in S :
     \/ parseBatchHeader(r.batches[i]).ticks < parseBatchHeader(r.batches[j]).ticks
     \/ (parseBatchHeader(r.batches[i]).ticks = parseBatchHeader(r.batches[j]).ticks
         /\ i <= j)

\* The events the records of the batches S of one processor yield, read in
\* the order of their start ticks by one reader.
RECURSIVE recordEvents(_, _, _)
recordEventsFrom(r, S, i, b) ==
  LET h == parseBatchHeader(r.batches[i])
      re == readerEvents([b EXCEPT !.batchBuf = r.batches[i],
                                   !.readOff = boHeaderSize([startTicks |-> h.ticks]),
                                   !.readLen = batchSize
                                               - boHeaderSize([startTicks |-> h.ticks]),
                                   !.syncTick = h.ticks])
  IN [k \in 1..Len(re.evs) |-> [re.evs[k] EXCEPT !.P = h.pid - 1]]
     \o recordEvents(r, S \ {i}, re.b)

recordEvents(r, S, b) ==
  IF S = {} THEN <<>> ELSE recordEventsFrom(r, S, earliestBatch(r, S), b)

\* The events of every event-yielding record of every batch of the file.
RECURSIVE fileEventsFrom(_, _)
fileEventsFrom(r, pids) ==
  IF pids = {} THEN <<>>
  ELSE LET pid == CHOOSE q \in pids : TRUE
       IN recordEvents(r, batchesOfPid(r, pid), ZeroBatchReader)
          \o fileEventsFrom(r, pids \ {pid})

fileEvents(r) ==
  fileEventsFrom(r, {parseBatchHeader(r.batches[i]).pid : i \in 1..Len(r.batches)})

occurrences(s, e) == Cardinality({i \in 1..Len(s) : s[i] = e})

\* Two sequences hold the same elements, each the same number of times.
sameBag(s, t) ==
  \A e \in SeqToSet(s) \cup SeqToSet(t) : occurrences(s, e) = occurrences(t, e)

\* Every batch of the file holds a record that yields an event.
noBatchWithoutEvent(r) ==
  \A i \in 1..Len(r.batches) :
     recordEvents(r, {i}, ZeroBatchReader) # <<>>

\* C36: over a full run of Next until end-of-stream, every event-yielding
\* record of every batch of the file is returned exactly once and nothing
\* else is returned; once Next has returned end-of-stream it returns
\* end-of-stream on every later call.
C36_EveryRecordReturnedOnce ==
  /\ [](phase = "eof" => sameBag(out, fileEvents(src)))
  /\ [][phase = "eof" => (phase' = "eof" /\ perr' = "EOF" /\ out' = out)]_vars

\* The claim for the files whose batches all hold an event-yielding record.
fullBatchesReturnedOnce ==
  /\ []((phase = "eof" /\ noBatchWithoutEvent(src)) => sameBag(out, fileEvents(src)))
  /\ [][phase = "eof" =>
          (phase' = "eof" /\ perr' = "EOF" /\ out' = out /\ parser' = parser)]_vars

\* For every file, what Next returned until end-of-stream is the events of
\* the records and events of kind 0.
recordsReturnedAmongZeroEvents ==
  phase = "eof" =>
    sameBag(SelectSeq(out, LAMBDA e : e.Kind # EventBad), fileEvents(src))

\* A run over two batches of two processors has ended and Next was called
\* again after end-of-stream.
twoBatchesReadToEnd ==
  /\ phase = "eof" /\ Len(src.batches) = 2 /\ Len(out) >= 3
  /\ noBatchWithoutEvent(src)
  /\ \E i, j \in 1..Len(out) : out[i].P # out[j].P

\* Next has returned an event of kind 0 for a batch without an event-yielding
\* record and then end-of-stream.
zeroEventReturnedBeforeEnd ==
  /\ phase = "eof" /\ ~noBatchWithoutEvent(src)
  /\ \E i \in 1..Len(out) : out[i].Kind = EventBad

(***************************************************************************)
(* The page caches of two processors over one bitmap (go114PageCache.alloc,*)
(* allocCache, allocToCache, AllocPages, FreePages).                       *)
(***************************************************************************)

MaxCacheCalls == 4

\* The page counts asked for: one page, the most a page cache serves, and
\* the least that goes to the bitmap at once.
CacheCounts == {1, 15, 16}

CacheProcs == {NoP, 0, 1}

InitCaches ==
  /\ ParserOff("pages")
  /\ SimIdle
  /\ vint = NoVarint /\ mrg = NoMerge /\ rdr = NoReader
  /\ heap = [pc |-> "caches", runs |-> {}, calls |-> 0, clash |-> FALSE,
             last |-> [op |-> "none"]]

\* Go114.AllocPages(ctx, n); clash records a run that shares a page with a
\* run handed out and not freed yet.
CachesAlloc ==
  /\ heap.pc = "caches" /\ Ok(sim)
  /\ heap.calls < MaxCacheCalls
  /\ \E P \in CacheProcs, n \in CacheCounts :
       \E res \in {AllocPages(sim, P, n)} :
         /\ sim' = res
         /\ heap' = [heap EXCEPT
                       !.runs = IF Ok(res) THEN @ \cup {[addr |-> res.ret, n |-> n]}
                                ELSE @,
                       !.clash = @ \/ (Ok(res) /\ \E r \in heap.runs :
                                         runPages(r) \cap
                                           runPages([addr |-> res.ret, n |-> n]) # {}),
                       !.calls = @ + 1,
                       !.last = [op |-> "alloc", P |-> P, addr |-> res.ret, n |-> n]]
  /\ UNCHANGED <<parserVars, run, pos, lastEv, hist, vint, mrg, rdr>>

\* Go114.FreePages(ctx, addr, n) of a run handed out and not freed yet.
CachesFree ==
  /\ heap.pc = "caches" /\ Ok(sim)
  /\ \E r \in heap.runs :
       /\ sim' = FreePages(sim, r.addr, r.n)
       /\ heap' = [heap EXCEPT !.runs = @ \ {r},
                               !.last = [op |-> "free", P |-> NoP,
                                         addr |-> r.addr, n |-> r.n]]
  /\ UNCHANGED <<parserVars, run, pos, lastEv, hist, vint, mrg, rdr>>

NextCaches == CachesAlloc \/ CachesFree

SpecCaches == InitCaches /\ [][NextCaches]_vars

\* C37: no page is available in two places at once: a page whose bit is
\* clear in a processor's page cache is marked allocated in the bitmap and
\* is clear in no other processor's cache, and no page of a run handed out
\* and not freed is clear in a cache or in the bitmap; the runs AllocPages
\* returned that are not yet freed are pairwise disjoint, for every
\* interleaving of processors (no processor included), page counts and frees
\* of live runs.
C37_PageInOnePlace ==
  (heap.pc = "caches" /\ Ok(sim)) =>
    /\ heldInCaches(sim) \subseteq sim.pa.pages.bits
    /\ \A P, Q \in DOMAIN sim.pa.pageCaches :
         P # Q => clearInCache(sim, P) \cap clearInCache(sim, Q) = {}
    /\ \A r \in heap.runs :
         /\ runPages(r) \subseteq sim.pa.pages.bits
         /\ runPages(r) \cap heldInCaches(sim) = {}
    /\ ~heap.clash
    /\ \A r, q \in heap.runs : r # q => runPages(r) \cap runPages(q) = {}

\* Two processors hold page caches cut from the same word of the bitmap, each
\* with a page of its own to hand out, after a free and next to a live run.
C37_TwoCachesOfOneWord ==
  /\ heap.pc = "caches" /\ Ok(sim)
  /\ heap.runs # {}
  /\ \E P, Q \in DOMAIN sim.pa.pageCaches :
       /\ P # Q
       /\ sim.pa.pageCaches[P].base = sim.pa.pageCaches[Q].base
       /\ clearInCache(sim, P) # {} /\ clearInCache(sim, Q) # {}

\* No call of the run ends in a panic.
cachesNoPanic == heap.pc = "caches" => Ok(sim)

(***************************************************************************)
(* The line reference counts of Immix (immixSpan.alloc, immixSpan.sweep,   *)
(* Immix.DeadObject).                                                      *)
(***************************************************************************)

\* The live objects whose bytes, header included, meet line i of span sp.
liveOnLine(w, sp, i) ==
  {o \in w.live.objects : /\ o.lo < sp.base + (i + 1) * sp.lineSize
                          /\ o.hi > sp.base + i * sp.lineSize}

\* The two first lines of a tiny span are kept for the pointer bits.
reservedLine(sp, i) == IF sp.class = immixTiny /\ i \in {0, 1} THEN 1 ELSE 0

\* In every span the pending decrement of a line is at most its reference
\* count, and the count less the pending decrement is the number of live
\* objects on the line, plus one on a reserved line.
lineCountsMatch(w) ==
  \A s \in DOMAIN w.oa.spans :
     \A i \in 0..(w.oa.spans[s].lineCount - 1) :
        /\ Get(w.oa.spans[s].lineRefDec, i, 0) <= Get(w.oa.spans[s].lineRefCount, i, 0)
        /\ Get(w.oa.spans[s].lineRefCount, i, 0)
             = Cardinality(liveOnLine(w, w.oa.spans[s], i))
               + Get(w.oa.spans[s].lineRefDec, i, 0)
               + reservedLine(w.oa.spans[s], i)

\* A step in which the object o died and its span s stays: the pending
\* decrement grows by one on exactly the lines o meets, no reference count
\* changes, and nothing changes in another span.
deathCounted(o, s) ==
  /\ \A i \in 0..(sim.oa.spans[s].lineCount - 1) :
        /\ Get(sim'.oa.spans[s].lineRefDec, i, 0)
             = Get(sim.oa.spans[s].lineRefDec, i, 0)
               + (IF o \in liveOnLine(sim, sim.oa.spans[s], i) THEN 1 ELSE 0)
        /\ Get(sim'.oa.spans[s].lineRefCount, i, 0)
             = Get(sim.oa.spans[s].lineRefCount, i, 0)
  /\ \A t \in DOMAIN sim.oa.spans : t # s => sim'.oa.spans[t] = sim.oa.spans[t]

\* C38: in every Immix span and for every line i, lineRefDec[i] is at most
\* lineRefCount[i], and lineRefCount[i] is the number of objects allocated in
\* the span and not yet swept whose bytes, header included, meet line i, plus
\* one on each of the two reserved lines of a tiny span: the objects not yet
\* swept are the live ones and the dead ones DeadObject has counted in
\* lineRefDec[i], once each on every line they meet.
C38_LineCountsAreObjectCounts ==
  /\ []((sim.oa.kind = "immix" /\ Ok(sim)) => lineCountsMatch(sim))
  /\ [][(sim.oa.kind = "immix" /\ Ok(sim) /\ Ok(sim')) =>
          \A o \in sim.live.objects \ sim'.live.objects :
             LET s == sim.oa.index[AlignDown(o.lo, go114PageSize)]
             IN s \in DOMAIN sim'.oa.spans => deathCounted(o, s)]_vars

\* A span holds a live object and a dead one that is not yet swept, both on
\* more than one line and on one line together; another line of the dead one
\* waits for the sweep to become free.
C38_DeadAndLiveShareLine ==
  /\ sim.oa.kind = "immix" /\ Ok(sim)
  /\ \E s \in DOMAIN sim.oa.spans :
       \E i, j \in 0..(sim.oa.spans[s].lineCount - 1) :
          /\ Get(sim.oa.spans[s].lineRefCount, i, 0) = 2
          /\ Get(sim.oa.spans[s].lineRefDec, i, 0) = 1
          /\ Cardinality(liveOnLine(sim, sim.oa.spans[s], i)) = 1
          /\ Get(sim.oa.spans[s].lineRefCount, j, 0) = 1
          /\ Get(sim.oa.spans[s].lineRefDec, j, 0) = 1

\* A sweep has applied the pending decrements of a span that lives on.
sweptLineCounts ==
  /\ sim.oa.kind = "immix" /\ Ok(sim) /\ sim.stats.Frees > 0
  /\ \E s \in DOMAIN sim.oa.spans :
       /\ sim.oa.spans[s].class # immixLarge
       /\ sim.oa.spans[s].allocCount > 0
       /\ sim.oa.spans[s].lineRefDec = EmptyMap
       /\ \E i \in 0..(sim.oa.spans[s].lineCount - 1) :
            Get(sim.oa.spans[s].lineRefCount, i, 0) = 1 + reservedLine(sim.oa.spans[s], i)

(***************************************************************************)
(* What AllocObject returns (Go115.AllocObject, Go115.refill,              *)
(* Immix.AllocObject, immixSpan.refill, Immix.refill).                     *)
(***************************************************************************)

\* Immix: the sizes at which the header, the span class and the allocation
\* path change, and an allocation without a P.
ImmixSizeEvents ==
  <<EvAlloc(1, 1, 0), EvAlloc(2, 128, 0), EvAlloc(3, 129, 0),
    EvAllocArray(4, 464, 0), EvAllocArray(5, 465, 0), EvAlloc(6, 2040, 0),
    EvAlloc(7, 2041, 0), EvAllocArray(8, 32768, 0), EvAlloc(9, 32769, 1),
    EvAlloc(10, 200, NoP), EvGCEnd, EvFree(8)>>

\* Go115: the ends of the modelled size classes, a large object, an
\* allocation without a P, and spans reused after a sweep.
Go115SizeEvents ==
  <<EvAlloc(1, 19073, 0), EvAlloc(2, 20480, 0), EvAlloc(3, 20481, 1),
    EvAlloc(4, 32768, 0), EvAlloc(5, 32769, 0), EvAlloc(6, 24576, NoP),
    EvGCEnd, EvFree(1), EvFree(2), EvGCStart, EvAlloc(7, 20480, 0),
    EvAlloc(8, 28000, 1)>>

AllocRuns ==
  {[kind |-> "immix", events |-> OverflowEvents],
   [kind |-> "immix", events |-> SpanEndEvents],
   [kind |-> "immix", events |-> ImmixSizeEvents],
   [kind |-> "immix", events |-> ScenariosImmix[1]],
   [kind |-> "go115", events |-> ScenariosGo115[1]],
   [kind |-> "go115", events |-> ScenariosGo115[2]],
   [kind |-> "go115", events |-> Go115SizeEvents]}

InitAllocs ==
  /\ ParserIdle
  /\ AuxIdle
  /\ run \in AllocRuns
  /\ sim = NewSimulator(run.kind)
  /\ pos = 0
  /\ lastEv = ZeroEvent
  /\ hist = <<>>

SpecAllocs == InitAllocs /\ [][NextSim]_vars

\* A step in which Process hands an Alloc event straight to AllocObject.
allocCall ==
  /\ phase = "sim"
  /\ hist' # hist
  /\ Ok(sim)
  /\ ~sim.collectEvents
  /\ lastEv'.Kind = EventAlloc
  /\ lastEv'.Size >= 1

\* A step in which Process drains a buffer of Alloc events, each with a P.
allocsDrained ==
  /\ phase = "sim"
  /\ hist' # hist
  /\ Ok(sim)
  /\ sim.collectEvents
  /\ lastEv'.Kind = EventGCStart
  /\ sim.gcEvents # <<>>
  /\ \A i \in DOMAIN sim.gcEvents :
       /\ sim.gcEvents[i].Kind = EventAlloc
       /\ sim.gcEvents[i].P # NoP
       /\ sim.gcEvents[i].Size >= 1

\* AllocObject returned a non-zero address for the object with this id.
returnedAddress(w, id) ==
  Ok(w) /\ id \in DOMAIN w.idToAddress /\ w.idToAddress[id] # 0

\* C39 as stated: every AllocObject call returns a non-zero address, for
\* every object size >= 1 and every reachable allocator state.
C39_EveryCallReturns ==
  [][allocCall => returnedAddress(sim', lastEv'.Address)]_vars

\* C39: every AllocObject call made with a P returns a non-zero address, for
\* every object size >= 1 and every reachable allocator state, be it called
\* for the event itself or for a buffered one; a call without a P panics
\* on entry.
C39_CallWithPReturns ==
  /\ [][(allocCall /\ lastEv'.P # NoP) =>
          returnedAddress(sim', lastEv'.Address)]_vars
  /\ [][(allocCall /\ lastEv'.P = NoP) =>
          sim'.panic = "allocation must be called with a P"]_vars
  /\ [][allocsDrained =>
          \A i \in DOMAIN sim.gcEvents :
            returnedAddress(sim', sim.gcEvents[i].Address)]_vars

\* Every object of OverflowEvents is allocated: from fresh spans, from a
\* span of the partial list, from a refilled region and from the overflow
\* span.
C39_AllocatedOnEveryPath ==
  /\ phase = "sim"
  /\ run.kind = "immix"
  /\ run.events = OverflowEvents
  /\ hist = [i \in 1..12 |-> i]
  /\ \A id \in {2, 4, 5, 6, 7, 8} : returnedAddress(sim, id)

\* Go115: an object is allocated from a span that was swept on refill.
go115AllocatedFromSweptSpan ==
  /\ phase = "sim"
  /\ run.kind = "go115"
  /\ run.events = ScenariosGo115[1]
  /\ hist = [i \in 1..12 |-> i]
  /\ \A id \in {4, 5} : returnedAddress(sim, id)

\* An allocation without a P has ended the run.
allocWithoutPPanicked ==
  /\ phase = "sim"
  /\ lastEv.Kind = EventAlloc
  /\ lastEv.P = NoP
  /\ sim.panic = "allocation must be called with a P"

\* A buffer of allocations has been drained.
bufferedAllocsReturned ==
  /\ phase = "sim"
  /\ Ok(sim)
  /\ run.events = Go115SizeEvents
  /\ hist = <<1, 7, 11, 12>>

(***************************************************************************)
(* Next at a malformed record (Parser.next, Parser.Next, refill).          *)
(***************************************************************************)

\* The events the records of the rest of a reader's batch yield, and the
\* error value that ends the reading: streamEnd at a BatchEnd, another at a
\* malformed record.
RECURSIVE readerRun(_)
readerRunAfter(ne) ==
  IF ne.err # "" THEN [evs |-> <<>>, b |-> ne.b, err |-> ne.err]
  ELSE [evs |-> <<ne.b.next>> \o readerRun(ne.b).evs,
        b |-> readerRun(ne.b).b,
        err |-> readerRun(ne.b).err]

readerRun(b) == readerRunAfter(nextEvent(b))

\* The events of the valid records that precede the first malformed record
\* of the batches S of one processor, read in the order of their start
\* ticks by one reader.
RECURSIVE validBefore(_, _, _)
validBeforeRead(r, S, i, rr) ==
  [k \in 1..Len(rr.evs) |-> [rr.evs[k] EXCEPT !.P = parseBatchHeader(r.batches[i]).pid - 1]]
  \o (IF rr.err = "streamEnd" THEN validBefore(r, S \ {i}, rr.b) ELSE <<>>)

validBeforeFrom(r, S, i, b) ==
  validBeforeRead(r, S, i,
    readerRun([b EXCEPT !.batchBuf = r.batches[i],
                        !.readOff = boHeaderSize(
                                      [startTicks |-> parseBatchHeader(r.batches[i]).ticks]),
                        !.readLen = batchSize - boHeaderSize(
                                      [startTicks |-> parseBatchHeader(r.batches[i]).ticks]),
                        !.syncTick = parseBatchHeader(r.batches[i]).ticks]))

validBefore(r, S, b) ==
  IF S = {} THEN <<>> ELSE validBeforeFrom(r, S, earliestBatch(r, S), b)

\* The same for the file of a trace of processor id 1.
validEvents(r) == validBefore(r, batchesOfPid(r, 1), ZeroBatchReader)

\* C40: when decoding a processor's next look-ahead record fails, every
\* valid event that precedes the malformed record has been returned by Next
\* before the error is surfaced.
C40_ValidEventsReturnedBeforeError ==
  phase = "error" =>
    \A k \in DOMAIN validEvents(src) : occurrences(out, validEvents(src)[k]) = 1

\* What Next does: the valid events but the last are returned, each once,
\* and the last one, the look-ahead Next had grabbed, is dropped.
lookAheadDroppedOnError ==
  (phase = "error" /\ validEvents(src) # <<>>) =>
    /\ \A k \in 1..(Len(validEvents(src)) - 1) :
         occurrences(out, validEvents(src)[k]) = 1
    /\ occurrences(out, validEvents(src)[Len(validEvents(src))]) = 0

\* Next has failed at a malformed record that follows a valid one.
nextFailedAfterValidEvent ==
  /\ phase = "error"
  /\ validEvents(src) # <<>>
  /\ out = <<>>

\* Next has failed at a malformed record that follows two valid ones: the
\* first has been returned, the second has not.
nextFailedAfterTwoValidEvents ==
  /\ phase = "error"
  /\ Len(validEvents(src)) = 2
  /\ out = <<validEvents(src)[1]>>

====
